---- MODULE Spec2Model ----
(***************************************************************************)
(* A model of the data-quality engine of qapp: the duplicate record        *)
(* detector of qa_core, the legacy QA run (qa_all) with its per-field      *)
(* checks, the taxonomy matcher (Field._explore) and the office mapping    *)
(* suggestion engine.  Each part has its own specification over the       *)
(* shared variables; the variables of the other parts stay at their idle   *)
(* values.                                                                 *)
(***************************************************************************)
EXTENDS Integers, Sequences, FiniteSets, TLC

VARIABLES
    \* ---- duplicate record detector (qa_core/checks.py, qa_core/report.py)
    df,          \* the DataFrame handed to find_duplicate_rows: [cols, rows]
    dupResult,   \* the DataFrame find_duplicate_rows returned (a sequence of rows)
    summaryRows, \* the duplicate rows of the report's summary sheet
    dupPc,       \* "idle" | "loaded" | "checked" | "found" | "reported"
    fieldsResult,\* all_results["fields"]: what check_fields returned
    dupSheet,    \* the rows of the report's Duplicates sheet
    earlier,     \* the dataset and the result of the run before a cell was edited
    editsLeft,   \* the edits of the dataset the user may still make
    \* ---- legacy QA run (legacy/src/qa.py, legacy/src/field.py, legacy/src/fields)
    stageData,   \* the DataFrame of qa_stage1, handed to the run-level checks
    fieldsData,  \* the DataFrame qa_check_fields hands to every field's check_all
    fipsOfficial,\* the rows of help-files/county-fips-codes.csv
    qaPc,        \* the step of qa_all / qa_stage1 that is next
    fieldIdx,    \* qa_check_fields: index into available_imports
    subPc,       \* check_all: the sub-step that is next for the current field
    executed,    \* the steps that ran to completion
    aborted,     \* the sub-checks a KeyboardInterrupt abandoned inside check_all
    files,       \* the sections written to each output file
    summary,     \* the lines of SUMMARY.txt
    relations,   \* per relational check, the irregular relations it reported
    interruptsLeft, \* the KeyboardInterrupts the user may still send
    cancelled,   \* qa_all caught a KeyboardInterrupt ('Canceled remaining QA checks.')
    \* ---- taxonomy matcher (legacy/src/field.py: check_similarities, _explore)
    filtered_values, \* check_all: the sorted unique values of the column
    aliasOrder,  \* per category, the order in which its alias set is enumerated
    passIdx,     \* the category _perform is at; past the last one: within-column
    exI,         \* _explore: 1-based position in values_to_search
    exJ,         \* _explore: 1-based position in entries
    all_matches, \* _explore: the dict of matches, as its items in insertion order
    output,      \* check_similarities: the list of sections to write
    simFile,     \* the similarity sections written to the field's file
    simSummary,  \* the lines check_similarities added to SUMMARY.txt
    matchPc,     \* "idle" | "explore" | "duplicates" | "write" | "written" | "aborted"
    abortedAt,   \* the matchPc at which a KeyboardInterrupt was raised
    \* ---- office mapping suggestions (qa_core/office_checks.py)
    officeColumn,    \* df["office"]: the raw cells
    canonical_order, \* the order in which canonical_set is enumerated
    unmatched,       \* the distinct normalized offices outside the canonical set
    sugIdx,          \* the 1-based position of the suggestion loop in unmatched
    suggestions,     \* the suggestions dict, as its items in insertion order
    officeRes,       \* the dict validate_office_mappings returns
    officePc,        \* "idle" | "loaded" | "suggest" | "returned"
    \* ---- numeric and outlier passes (qa_core/stats_utils.py, qa_core/config.py)
    votesData,       \* the DataFrame handed to the two passes: [cols, rows]
    statsConfig,     \* config.MIN_EXPECTED_ROWS and config.OUTLIER_THRESHOLD
    numerical,       \* what run_numerical_checks returned
    distribution,    \* what vote_distribution_check returned
    groupIdx,        \* vote_distribution_check: position in df.groupby("state")
    outliers,        \* vote_distribution_check: the list of outlier states
    partitionLog,    \* per partition visited, how the loop body left it
    flaggedRows,     \* the records whose z-score exceeded the threshold
    statsEarlier,    \* the configuration and the outcome of the run before
    rerunsLeft,      \* the runs with a raised configuration still to come
    statsPc          \* "idle" | "loaded" | "numerical" | "groups" | "returned"

dupVars == <<df, dupResult, summaryRows, dupPc, fieldsResult, dupSheet, earlier, editsLeft>>

qaVars == <<stageData, fieldsData, fipsOfficial, qaPc, fieldIdx, subPc, executed,
            aborted, files, summary, relations, interruptsLeft, cancelled>>

matchVars == <<filtered_values, aliasOrder, passIdx, exI, exJ, all_matches, output,
               simFile, simSummary, matchPc, abortedAt>>

officeVars == <<officeColumn, canonical_order, unmatched, sugIdx, suggestions,
                officeRes, officePc>>

statsVars == <<votesData, statsConfig, numerical, distribution, groupIdx, outliers,
               partitionLog, flaggedRows, statsEarlier, rerunsLeft, statsPc>>

vars == <<dupVars, qaVars, matchVars, officeVars, statsVars>>

\* ------------------------------------------------------------------------
\* The idle values a part's variables keep under the other parts'
\* specifications
\* ------------------------------------------------------------------------

IdleDup ==
    /\ df = [cols |-> {}, rows |-> <<>>]
    /\ dupResult = <<>>
    /\ summaryRows = <<>>
    /\ dupPc = "idle"
    /\ fieldsResult = <<>>
    /\ dupSheet = <<>>
    /\ earlier = <<>>
    /\ editsLeft = 0

IdleQa ==
    /\ stageData = [cols |-> {}, rows |-> <<>>]
    /\ fieldsData = [cols |-> {}, rows |-> <<>>]
    /\ fipsOfficial = <<>>
    /\ qaPc = "idle"
    /\ fieldIdx = 0
    /\ subPc = "idle"
    /\ executed = {}
    /\ aborted = {}
    /\ files = <<>>
    /\ summary = {}
    /\ relations = <<>>
    /\ interruptsLeft = 0
    /\ cancelled = FALSE

IdleMatch ==
    /\ filtered_values = <<>>
    /\ aliasOrder = <<>>
    /\ passIdx = 0
    /\ exI = 0
    /\ exJ = 0
    /\ all_matches = <<>>
    /\ output = <<>>
    /\ simFile = <<>>
    /\ simSummary = {}
    /\ matchPc = "idle"
    /\ abortedAt = "none"

IdleOffice ==
    /\ officeColumn = [present |-> FALSE, cells |-> <<>>]
    /\ canonical_order = <<>>
    /\ unmatched = <<>>
    /\ sugIdx = 0
    /\ suggestions = <<>>
    /\ officeRes = [issues |-> 0, issue_values |-> <<>>, issue_rows |-> <<>>,
                    mapping_suggestions |-> <<>>, unmatched_counts |-> <<>>]
    /\ officePc = "idle"

IdleStats ==
    /\ votesData = [cols |-> {}, rows |-> <<>>]
    /\ statsConfig = [MIN_EXPECTED_ROWS |-> 0, OUTLIER_THRESHOLD |-> 0]
    /\ numerical = <<>>
    /\ distribution = <<>>
    /\ groupIdx = 0
    /\ outliers = <<>>
    /\ partitionLog = <<>>
    /\ flaggedRows = {}
    /\ statsEarlier = <<>>
    /\ rerunsLeft = 0
    /\ statsPc = "idle"

\* ------------------------------------------------------------------------
\* Generic helpers
\* ------------------------------------------------------------------------

Range(s) == {s[i] : i \in 1..Len(s)}

SeqsUpTo(S, n) == UNION {[1..k -> S] : k \in 0..n}

RECURSIVE SelectIdx(_, _, _)
\* the increasing sequence of the indices i >= from of 1..n with keep[i]
SelectIdx(keep, from, n) ==
    IF from > n THEN <<>>
    ELSE IF keep[from] THEN <<from>> \o SelectIdx(keep, from + 1, n)
    ELSE SelectIdx(keep, from + 1, n)

\* ------------------------------------------------------------------------
\* Duplicate record detector
\* ------------------------------------------------------------------------

\* bound on the number of records of a modelled dataset
MaxDupRows == 3

\* bound on the number of cells the user edits between two runs
MaxEdits == 1

\* the cell values of the modelled datasets (ordered, as sort_values needs)
DupVals == {1, 2}

\* the columns a modelled dataset may have, in DataFrame column order
DupColumnOrder == <<"precinct", "office", "votes">>

DupColumns(cols) == SelectSeq(DupColumnOrder, LAMBDA c : c \in cols)

\* duplicated() with its default keep='first': the first occurrence of a
\* class is not marked
DuplicatedKeepFirst(rows, subset, i) ==
    \E j \in 1..(i - 1) : \A c \in subset : rows[j][c] = rows[i][c]

\* DataFrame.duplicated(subset=..., keep=False): row i agrees with another row
\* on every column of subset
DuplicatedKeepFalse(rows, subset, i) ==
    \E j \in 1..Len(rows) : j # i /\ \A c \in subset : rows[j][c] = rows[i][c]

\* lexicographic "strictly before" of two rows on the columns `by`
RECURSIVE RowLess(_, _, _)
RowLess(a, b, by) ==
    IF by = <<>> THEN FALSE
    ELSE IF a[Head(by)] < b[Head(by)] THEN TRUE
    ELSE IF a[Head(by)] > b[Head(by)] THEN FALSE
    ELSE RowLess(a, b, Tail(by))

RECURSIVE InsertSorted(_, _, _)
\* stable insertion: e goes after every element that is not after it
InsertSorted(sorted, e, by) ==
    IF sorted = <<>> THEN <<e>>
    ELSE IF RowLess(e.cells, Head(sorted).cells, by)
         THEN <<e>> \o sorted
         ELSE <<Head(sorted)>> \o InsertSorted(Tail(sorted), e, by)

RECURSIVE SortValues(_, _)
\* DataFrame.sort_values(by=...): rows ordered by the columns of `by`, rows
\* equal on them kept in their order
SortValues(frame, by) ==
    IF frame = <<>> THEN <<>>
    ELSE InsertSorted(SortValues(SubSeq(frame, 1, Len(frame) - 1), by),
                      frame[Len(frame)], by)

\* reset_index(drop=True) and concat(ignore_index=True): the index labels
\* become 0..n-1 in the order of the frame; the old labels are dropped
ResetIndex(frame) == [k \in 1..Len(frame) |-> [frame[k] EXCEPT !.index = k - 1]]

\* df.loc[mask].copy() with a dup_type column added: the selected rows keep
\* their index label.  src is a ghost of the model that no operation reads:
\* the 1-indexed position the row has in the input dataset.
Flagged(rows, keep, kind) ==
    LET idx == SelectIdx(keep, 1, Len(rows))
    IN  [k \in 1..Len(idx) |->
            [cells |-> rows[idx[k]], dup_type |-> kind,
             index |-> idx[k] - 1, src |-> idx[k]]]

\* the mask of rows 2) keeps before the precinct filter is applied
OnlyNoVotesMaskNoExclusion(d, i) ==
    DuplicatedKeepFalse(d.rows, d.cols \ {"votes"}, i)

OnlyNoVotesMask(d, i) ==
    /\ DuplicatedKeepFalse(d.rows, d.cols \ {"votes"}, i)
    /\ ~DuplicatedKeepFalse(d.rows, d.cols, i)

\* the filter with its test turned around: nunique() != 1
SamePrecinctFilterInverted(frame, colsNoVotes) ==
    LET group(r) == {k \in 1..Len(frame) :
                        \A c \in colsNoVotes : frame[k].cells[c] = r.cells[c]}
        nunique(r) == Cardinality({frame[k].cells["precinct"] : k \in group(r)})
    IN  SelectSeq(frame, LAMBDA r : nunique(r) # 1)

\* "Ensure same precinct across group": of the flagged rows, those whose
\* group (by every column but votes) holds one distinct precinct value
SamePrecinctFilter(frame, colsNoVotes) ==
    LET group(r) == {k \in 1..Len(frame) :
                        \A c \in colsNoVotes : frame[k].cells[c] = r.cells[c]}
        nunique(r) == Cardinality({frame[k].cells["precinct"] : k \in group(r)})
    IN  SelectSeq(frame, LAMBDA r : nunique(r) = 1)

find_duplicate_rows(d) ==
    IF d.rows = <<>> \/ d.cols = {} THEN <<>>
    ELSE
      LET n == Len(d.rows)
          exact_mask == [i \in 1..n |-> DuplicatedKeepFalse(d.rows, d.cols, i)]
          exact_dups == Flagged(d.rows, exact_mask, "exact_duplicate")
          cols_no_votes == d.cols \ {"votes"}
          only_no_votes_mask == [i \in 1..n |-> OnlyNoVotesMask(d, i)]
          flagged == Flagged(d.rows, only_no_votes_mask, "all_but_votes_duplicate")
          no_votes_dups ==
              IF "votes" \in d.cols /\ Cardinality(d.cols) > 1
              THEN IF "precinct" \in d.cols
                   THEN SamePrecinctFilter(flagged, cols_no_votes)
                   ELSE flagged
              ELSE <<>>
          out == exact_dups \o no_votes_dups
      IN  ResetIndex(SortValues(ResetIndex(out), DupColumns(d.cols)))

\* write_excel_report, "Add duplicates summary rows": one row per dup_type,
\* its issue_row_numbers being the index labels of the group plus one
DuplicateSummaryRows(dup_df) ==
    LET types == {dup_df[k].dup_type : k \in 1..Len(dup_df)}
        g(t) == SelectSeq(dup_df, LAMBDA r : r.dup_type = t)
    IN  [t \in types |->
            [check  |-> IF t = "exact_duplicate" THEN "exact_duplicates" ELSE t,
             issues |-> Len(g(t)),
             issue_row_numbers |-> [k \in 1..Len(g(t)) |-> g(t)[k].index + 1]]]

\* duplicate_group = pd.Series([""] * len(table)): the blank of a row that is
\* given no group id; the ids start at next_gid = 1
NoGroup == 0

\* the rows of the table with the given dup_type
OfType(table, kind) == SelectSeq(table, LAMBDA r : r.dup_type = kind)

\* grp_cols: every column but dup_type, and for all_but_votes_duplicate not
\* votes either; "if not grp_cols" falls back on every column of the table
GroupColumns(kind, cols) ==
    IF kind = "all_but_votes_duplicate" /\ cols \ {"votes"} # {}
    THEN cols \ {"votes"}
    ELSE cols

\* the key of a row in subset.groupby(grp_cols, dropna=False)
GroupKey(r, grp) == [c \in grp |-> r.cells[c]]

GroupSize(table, kind, grp, key) ==
    Cardinality({k \in 1..Len(table) :
                    table[k].dup_type = kind /\ GroupKey(table[k], grp) = key})

\* the keys of the groups of one dup_type that get a group id: len(sub) > 1
NumberedKeys(table, kind, grp) ==
    {GroupKey(table[k], grp) : k \in {j \in 1..Len(table) :
        /\ table[j].dup_type = kind
        /\ GroupSize(table, kind, grp, GroupKey(table[j], grp)) > 1}}

\* groupby iterates the groups in sorted key order: the 1-based rank of key
KeyRank(key, keys, by) == 1 + Cardinality({k \in keys : RowLess(k, key, by)})

\* the ids given out before the groups of kind: table.groupby('dup_type')
\* visits all_but_votes_duplicate before exact_duplicate
IdsBefore(table, kind, cols) ==
    IF kind = "exact_duplicate"
    THEN Cardinality(NumberedKeys(table, "all_but_votes_duplicate",
                                  GroupColumns("all_but_votes_duplicate", cols)))
    ELSE 0

GroupIdIn(table, r, cols, grp) ==
    IF GroupKey(r, grp) \in NumberedKeys(table, r.dup_type, grp)
    THEN IdsBefore(table, r.dup_type, cols)
         + KeyRank(GroupKey(r, grp), NumberedKeys(table, r.dup_type, grp), DupColumns(grp))
    ELSE NoGroup

\* duplicate_group.loc[sub.index] = gid
GroupId(table, r, cols) == GroupIdIn(table, r, cols, GroupColumns(r.dup_type, cols))

\* write_excel_report, the Duplicates sheet: the rows of results["duplicates"]
\* with duplicate_group as first column
DuplicatesSheet(table, cols) ==
    [k \in 1..Len(table) |->
        [duplicate_group |-> GroupId(table, table[k], cols),
         dup_type |-> table[k].dup_type,
         cells |-> table[k].cells,
         src |-> table[k].src]]

\* the datasets the runner may load: a frame without columns has no rows
DupDatasets ==
    UNION {[cols : {cs}, rows : SeqsUpTo([cs -> DupVals], IF cs = {} THEN 0 ELSE MaxDupRows)] :
              cs \in SUBSET Range(DupColumnOrder)}

\* sample_issues(df, condition, n=10)
SampleN == 10

\* df.duplicated(keep=False) over every column; no row of an empty frame
ExactMask(d) ==
    [i \in 1..Len(d.rows) |-> d.cols # {} /\ DuplicatedKeepFalse(d.rows, d.cols, i)]

\* sample_issues: the 1-indexed numbers of the first n rows of the mask, and
\* whether '...' is appended
SampleIssues(hits) ==
    [rows |-> SubSeq(hits, 1, IF Len(hits) < SampleN THEN Len(hits) ELSE SampleN),
     more |-> Len(hits) > SampleN]

ExactDuplicatesIssue(hits) ==
    [issues |-> Len(hits), issue_row_numbers |-> SampleIssues(hits)]

\* check_fields: issues["exact_duplicates"]
check_fields(d) ==
    [exact_duplicates |->
        ExactDuplicatesIssue(SelectIdx(ExactMask(d), 1, Len(d.rows)))]

InitDup ==
    /\ df \in DupDatasets
    /\ dupResult = <<>>
    /\ summaryRows = <<>>
    /\ dupPc = "loaded"
    /\ fieldsResult = <<>>
    /\ dupSheet = <<>>
    /\ earlier = <<>>
    /\ editsLeft = MaxEdits
    /\ IdleQa /\ IdleMatch /\ IdleOffice /\ IdleStats

\* runner: all_results["fields"] = checks.check_fields(df)
CheckFields ==
    /\ dupPc = "loaded"
    /\ fieldsResult' = check_fields(df)
    /\ dupPc' = "checked"
    /\ UNCHANGED <<df, dupResult, summaryRows, dupSheet, earlier, editsLeft,
                   qaVars, matchVars, officeVars, statsVars>>

\* runner: duplicates_df = checks.find_duplicate_rows(df)
FindDuplicateRows ==
    /\ dupPc = "checked"
    /\ dupResult' = find_duplicate_rows(df)
    /\ dupPc' = "found"
    /\ UNCHANGED <<df, summaryRows, fieldsResult, dupSheet, earlier, editsLeft,
                   qaVars, matchVars, officeVars, statsVars>>

\* write_excel_report: the duplicates rows of the summary sheet and the
\* Duplicates sheet
WriteDuplicateSummary ==
    /\ dupPc = "found"
    /\ summaryRows' = DuplicateSummaryRows(dupResult)
    /\ dupSheet' = DuplicatesSheet(dupResult, df.cols)
    /\ dupPc' = "reported"
    /\ UNCHANGED <<df, dupResult, fieldsResult, earlier, editsLeft,
                   qaVars, matchVars, officeVars, statsVars>>

\* between two runs the user changes the votes cell of one record of the
\* file; the runner is started again on the edited dataset
EditVotesAndRerun ==
    /\ dupPc = "reported"
    /\ editsLeft > 0
    /\ "votes" \in df.cols
    /\ \E i \in 1..Len(df.rows), v \in DupVals :
          /\ v # df.rows[i]["votes"]
          /\ df' = [df EXCEPT !.rows[i]["votes"] = v]
          /\ earlier' = <<[df |-> df, dupResult |-> dupResult, row |-> i]>>
    /\ editsLeft' = editsLeft - 1
    /\ dupResult' = <<>>
    /\ summaryRows' = <<>>
    /\ fieldsResult' = <<>>
    /\ dupSheet' = <<>>
    /\ dupPc' = "loaded"
    /\ UNCHANGED <<qaVars, matchVars, officeVars, statsVars>>

NextDup == CheckFields \/ FindDuplicateRows \/ WriteDuplicateSummary \/ EditVotesAndRerun

SpecDup == InitDup /\ [][NextDup]_vars

\* the ghost positions of the result rows labelled `kind`
SrcOf(kind) == {dupResult[k].src : k \in {j \in 1..Len(dupResult) : dupResult[j].dup_type = kind}}

\* C1: no record of the input dataset is labelled both exact_duplicate and
\* all_but_votes_duplicate by find_duplicate_rows: the rows labelled exact and
\* the rows labelled partial are disjoint sets of records.
C1_ExactPartialDisjoint ==
    dupPc \in {"found", "reported"} =>
        SrcOf("exact_duplicate") \cap SrcOf("all_but_votes_duplicate") = {}

\* C1 witness: a result that holds rows of both kinds
C1_Witness ==
    /\ dupPc = "found"
    /\ SrcOf("exact_duplicate") # {}
    /\ SrcOf("all_but_votes_duplicate") # {}

\* C2: every row find_duplicate_rows returns, and every duplicate row number
\* of the report's summary, identifies the record by its original 1-indexed
\* position in the input dataset.
C2_RowNumbersAreOriginalPositions ==
    /\ dupPc \in {"found", "reported"} =>
          \A k \in 1..Len(dupResult) : dupResult[k].index + 1 = dupResult[k].src
    /\ dupPc = "reported" =>
          \A t \in DOMAIN summaryRows :
              Range(summaryRows[t].issue_row_numbers) = SrcOf(t)

\* the number of rows of the result labelled `kind`
NumLabelled(kind) == Len(OfType(dupResult, kind))

\* another record of the dataset is identical to record i in every column
HasIdenticalRecord(i) == \E j \in 1..Len(df.rows) : j # i /\ df.rows[j] = df.rows[i]

\* C17: a record is flagged exact_duplicate if and only if another record of
\* the dataset is identical to it in every column, every member of such a
\* class (the first occurrence included) is flagged once, and the
\* exact_duplicates count of check_fields equals the number of rows
\* find_duplicate_rows labels exact_duplicate.
C17_ExactDuplicatesFlagged ==
    dupPc \in {"found", "reported"} =>
        /\ \A i \in 1..Len(df.rows) : i \in SrcOf("exact_duplicate") <=> HasIdenticalRecord(i)
        /\ NumLabelled("exact_duplicate") = Cardinality(SrcOf("exact_duplicate"))
        /\ fieldsResult.exact_duplicates.issues = NumLabelled("exact_duplicate")

\* records a and b of the dataset d agree on every column but votes
AgreeButVotes(d, a, b) == \A c \in d.cols \ {"votes"} : d.rows[a][c] = d.rows[b][c]

\* the only duplication of d is the pair of records i, j, identical in every
\* column: no other two records agree, not even on every column but votes
OnlyDuplicationIsPair(d, i, j) ==
    /\ i < j
    /\ d.rows[i] = d.rows[j]
    /\ \A a, b \in 1..Len(d.rows) :
           (a < b /\ AgreeButVotes(d, a, b)) => (a = i /\ b = j)

\* the result holds one group of the kind, made of the records i and j, and
\* no row of the other kind
OneGroupOfTwo(kind, other, i, j) ==
    /\ SrcOf(kind) = {i, j}
    /\ NumLabelled(kind) = 2
    /\ NumLabelled(other) = 0

\* the dataset of this run is the dataset of the run before with the votes of
\* one of the records i, j changed
VotesOfPairChanged(i, j) ==
    /\ earlier # <<>>
    /\ OnlyDuplicationIsPair(earlier[1].df, i, j)
    /\ earlier[1].row \in {i, j}

\* C18: if the only duplication of a dataset is one pair of records identical
\* in every column, one exact group of size 2 is reported; after the votes
\* of one of the two records is changed, the pair is reported as one partial
\* (all_but_votes) group of size 2 and no exact group is reported.
C18_PairReclassifiedAsPartial ==
    dupPc \in {"found", "reported"} =>
        \A i, j \in 1..Len(df.rows) :
            /\ OnlyDuplicationIsPair(df, i, j) =>
                   OneGroupOfTwo("exact_duplicate", "all_but_votes_duplicate", i, j)
            /\ VotesOfPairChanged(i, j) =>
                   OneGroupOfTwo("all_but_votes_duplicate", "exact_duplicate", i, j)

\* C18 as amended: the same, for a dataset that has a column besides votes;
\* for a dataset whose only column is votes nothing is reported after the
\* change.
C18_PairReclassifiedWithOtherColumn ==
    dupPc \in {"found", "reported"} =>
        \A i, j \in 1..Len(df.rows) :
            /\ (Cardinality(df.cols) > 1 /\ OnlyDuplicationIsPair(df, i, j)) =>
                   OneGroupOfTwo("exact_duplicate", "all_but_votes_duplicate", i, j)
            /\ (Cardinality(df.cols) > 1 /\ VotesOfPairChanged(i, j)) =>
                   OneGroupOfTwo("all_but_votes_duplicate", "exact_duplicate", i, j)
            /\ (df.cols = {"votes"} /\ VotesOfPairChanged(i, j)) => dupResult = <<>>

\* C18 witness: the second run, on a dataset with three columns whose only
\* duplication was an identical pair until the votes of one of the two were
\* changed, has labelled two rows all_but_votes_duplicate
C18_Witness ==
    /\ dupPc = "found"
    /\ Cardinality(df.cols) = 3
    /\ \E i, j \in 1..Len(df.rows) : VotesOfPairChanged(i, j)
    /\ NumLabelled("all_but_votes_duplicate") = 2

\* two rows of a duplicates table belong to the same duplicate class of the
\* kind: equal on all columns for exact, on all columns but votes for partial
SameClass(a, b, kind) ==
    \A c \in GroupColumns(kind, df.cols) : a.cells[c] = b.cells[c]

\* C19: every reported partial-duplicate group has at least two members:
\* each row flagged all_but_votes_duplicate has another row, also flagged
\* all_but_votes_duplicate, that agrees with it on every column except votes.
C19_PartialGroupsHaveTwoMembers ==
    dupPc \in {"found", "reported"} =>
        \A k \in 1..Len(dupResult) :
            dupResult[k].dup_type = "all_but_votes_duplicate" =>
                \E m \in 1..Len(dupResult) :
                    /\ m # k
                    /\ dupResult[m].dup_type = "all_but_votes_duplicate"
                    /\ SameClass(dupResult[k], dupResult[m], "all_but_votes_duplicate")

\* C20: on the Duplicates sheet every flagged row carries a group id, and two
\* rows carry the same group id if and only if they have the same duplicate
\* kind and belong to the same duplicate class; no id is shared between an
\* exact group and a partial group.
C20_GroupIdsIdentifyClasses ==
    dupPc = "reported" =>
        /\ \A k \in 1..Len(dupSheet) : dupSheet[k].duplicate_group # NoGroup
        /\ \A k, m \in 1..Len(dupSheet) :
               dupSheet[k].duplicate_group = dupSheet[m].duplicate_group
               <=> /\ dupSheet[k].dup_type = dupSheet[m].dup_type
                   /\ SameClass(dupSheet[k], dupSheet[m], dupSheet[k].dup_type)

\* C17 witness: a dataset with a class of identical records next to a record
\* that has no identical one; both functions have run
C17_Witness ==
    /\ dupPc = "found"
    /\ fieldsResult.exact_duplicates.issues >= 2
    /\ NumLabelled("exact_duplicate") >= 2
    /\ \E i \in 1..Len(df.rows) : ~HasIdenticalRecord(i)

\* the records step 2) selects before "Ensure same precinct across group":
\* agreeing with another record on every column but votes, with none on
\* every column
SelectedBeforeFilter ==
    IF "votes" \in df.cols /\ Cardinality(df.cols) > 1
    THEN {i \in 1..Len(df.rows) :
            /\ \E j \in 1..Len(df.rows) : j # i /\ AgreeButVotes(df, i, j)
            /\ ~HasIdenticalRecord(i)}
    ELSE {}

\* C30: the 'same precinct across group' filter of find_duplicate_rows never
\* removes a record: the records flagged all_but_votes_duplicate are the
\* records selected before the filter, precinct being one of the grouping
\* columns.
C30_PrecinctFilterRemovesNothing ==
    dupPc \in {"found", "reported"} =>
        /\ SrcOf("all_but_votes_duplicate") = SelectedBeforeFilter
        /\ NumLabelled("all_but_votes_duplicate") = Cardinality(SelectedBeforeFilter)

\* C30 witness: a dataset with a precinct column whose records are not all of
\* one precinct; the filter has been applied to a selection that is not empty
C30_Witness ==
    /\ dupPc = "found"
    /\ {"precinct", "votes"} \subseteq df.cols
    /\ SelectedBeforeFilter # {}
    /\ SrcOf("all_but_votes_duplicate") = SelectedBeforeFilter
    /\ \E i, j \in 1..Len(df.rows) : df.rows[i]["precinct"] # df.rows[j]["precinct"]

\* ------------------------------------------------------------------------
\* Legacy QA run: qa_all -> qa_stage1 -> qa_check_columns, qa_check_fields
\* (Field.check_all per field), qa_check_duplicates, wrap_summary
\* ------------------------------------------------------------------------

\* bound on the records of a dataset of the cancellation runs (SpecQA)
MaxRunRows == 1

\* bound on the records of a dataset of the uninterrupted runs (SpecFields)
MaxQaRows == 2

\* bound on the expected columns a modelled dataset lacks (SpecFields)
MaxMissing == 1

\* bound on the KeyboardInterrupts of one run (SpecQA)
MaxInterrupts == 1

EMPTY_RECORD == "<<<EC: VALUE WAS EMPTY>>>"

available_imports ==
    <<"precinct", "office", "party_detailed", "party_simplified", "mode", "votes",
      "county_name", "county_fips", "jurisdiction_name", "jurisdiction_fips",
      "candidate", "district", "magnitude", "dataverse", "year", "stage", "state",
      "special", "writein", "state_po", "state_fips", "state_cen", "state_ic", "date">>

expected_columns == Range(available_imports)

\* the columns the modelled datasets draw from; the fields of the other 18
\* columns are absent from every modelled dataset
QaColumns ==
    {"votes", "county_name", "county_fips", "jurisdiction_name",
     "jurisdiction_fips", "state"}

\* a cell is a string (quick_load reads county_fips with dtype str) or a number
StrCell(s) == [type |-> "str", str |-> s, num |-> 0]
IntCell(n) == [type |-> "int", str |-> "", num |-> n]

\* pd.to_numeric on the strings of the modelled datasets
NumericStrings == {"1", "01", "5", "10"}
NumericValue(s) == CASE s = "1" -> 1 [] s = "01" -> 1 [] s = "5" -> 5 [] s = "10" -> 10
CanParse(cell) == cell.type = "int" \/ cell.str \in NumericStrings
ToNumericCell(cell) == IF cell.type = "int" THEN cell ELSE IntCell(NumericValue(cell.str))

QaRowValues(cols) ==
    {[c \in cols |->
        CASE c = "county_name" -> StrCell(n)
          [] c = "county_fips" -> StrCell(f)
          [] c = "state" -> StrCell("S")
          [] c = "votes" -> IntCell(5)
          [] c = "jurisdiction_name" -> StrCell("J")
          [] c = "jurisdiction_fips" -> StrCell("10")] :
        n \in {"A", "B"}, f \in {"1", "01", EMPTY_RECORD}}

QaDatasets(maxRows, maxMissing) ==
    UNION {[cols : {QaColumns \ miss}, rows : SeqsUpTo(QaRowValues(QaColumns \ miss), maxRows)] :
              miss \in {m \in SUBSET QaColumns : Cardinality(m) <= maxMissing}}

\* help-files/county-fips-codes.csv after state.str.upper() and to_numeric
OfficialFile ==
    <<[state |-> "S", county_name |-> "A", county_fips |-> 1],
      [state |-> "S", county_name |-> "B", county_fips |-> 2]>>

OfficialTables == {SubSeq(OfficialFile, 1, 1), OfficialFile}

RECURSIVE UniqueInOrder(_)
\* Series.unique(): the distinct values in their order of first appearance
UniqueInOrder(seq) ==
    IF seq = <<>> THEN <<>>
    ELSE LET init == UniqueInOrder(SubSeq(seq, 1, Len(seq) - 1))
             last == seq[Len(seq)]
         IN  IF last \in Range(init) THEN init ELSE Append(init, last)

\* data.groupby([by])[col].unique() for one key
UniquePerKey(d, by, key, col) ==
    UniqueInOrder([k \in 1..Len(SelectSeq(d.rows, LAMBDA r : r[by] = key)) |->
                      SelectSeq(d.rows, LAMBDA r : r[by] = key)[k][col]])

KeysOf(d, by) == {d.rows[i][by] : i \in 1..Len(d.rows)}

\* ---- output files and SUMMARY.txt

FileKeys == Range(available_imports) \cup {"columns", "duplicates"}

Section(name, report, issues) == [section |-> name, report |-> report, issues |-> issues]

AddSection(fs, key, sec) == [fs EXCEPT ![key] = @ \cup {sec}]

\* ---- the steps of one run

RunStep(name) == <<"run", name>>

FieldSubSteps == {"header", "characters", "similarities", "special", "all_values"}

GuardedSubSteps == {"characters", "similarities", "special"}

\* every step qa_stage1 schedules for a dataset with the columns cols
AllSteps(cols) ==
    {RunStep(n) : n \in {"init_summary", "check_columns", "check_duplicates", "wrap_summary"}}
    \cup {<<f, "missing_note">> : f \in Range(available_imports) \ cols}
    \cup {<<f, s>> : f \in Range(available_imports) \cap cols, s \in FieldSubSteps}

CurrentField == available_imports[fieldIdx]

\* ---- Field.check_characters: the text checks of the field's class on the
\* distinct values of the column; of the modelled values only EMPTY_RECORD in a
\* digits-only column ('UNRECOGNIZED CHARACTERS': [^0-9\-]+) is a bad value
DigitsOnlyFields == {"county_fips", "jurisdiction_fips", "votes"}

CharacterIssues(d, f) ==
    f \in DigitsOnlyFields /\ \E i \in 1..Len(d.rows) : d.rows[i][f] = StrCell(EMPTY_RECORD)

\* ---- the relational checks: what a check_special reported per direction.
\* A reported line is <<bad_name, bad_fips>>: the source value and the list
\* printed after it

RelationalFields == {"county_name", "jurisdiction_name"}

\* the directions with an 'IRREGULAR ... RELATIONS' block in the output
Irregulars(dirs, ntf, ftn) == [evaluated |-> dirs, ntf |-> ntf, ftn |-> ftn]

NotEvaluated == Irregulars({}, {}, {})

\* name_to_fips / fips_to_names of County_name.check_special: per value of
\* the column `by`, the list groupby([by])[col].unique() holds for it
RelationLists(d, by, col) ==
    {<<k, UniquePerKey(d, by, k, col)>> : k \in KeysOf(d, by)}

\* the comprehension with its test weakened to len(fips) > 0
LongerThanZero(items) == {it \in items : Len(it[2]) > 0}

\* [(name, fips) for (name, fips) in ....items() if len(fips) > 1]
LongerThanOne(items) == {it \in items : Len(it[2]) > 1}

\* ---- County_name.check_special
County_name_check_special(d) ==
    IF "county_fips" \notin d.cols
    THEN \* the note is appended to output, and output is written only in
         \* the else branch
         [written |-> FALSE,
          output |-> {"county_fips column is not present, so checks could not performed."},
          issues |-> FALSE,
          irregulars |-> NotEvaluated]
    ELSE LET irregulars_ntf ==
                 {n \in KeysOf(d, "county_name") :
                     Len(UniquePerKey(d, "county_name", n, "county_fips")) > 1}
             irregulars_ftn ==
                 {f \in KeysOf(d, "county_fips") :
                     Len(UniquePerKey(d, "county_fips", f, "county_name")) > 1}
         IN  [written |-> TRUE,
              irregulars |->
                  Irregulars({"ntf", "ftn"},
                             LongerThanOne(RelationLists(d, "county_name", "county_fips")),
                             LongerThanOne(RelationLists(d, "county_fips", "county_name"))),
              output |-> (IF irregulars_ntf = {} THEN {"name to fips: No Problems Found"}
                          ELSE {"IRREGULAR COUNTY NAME TO FIPS RELATIONS"})
                         \cup (IF irregulars_ftn = {} THEN {"fips to names: No Problems Found"}
                               ELSE {"IRREGULAR COUNTY FIPS TO NAMES RELATIONS"}),
              issues |-> irregulars_ntf # {} \/ irregulars_ftn # {}]

\* ---- County_fips.check_special
\* data['county_fips'] = pd.to_numeric(data['county_fips']): the column of the
\* DataFrame the caller handed in is replaced
AssignNumericCountyFips(d) ==
    [d EXCEPT !.rows = [i \in 1..Len(d.rows) |->
                           [d.rows[i] EXCEPT !["county_fips"] = ToNumericCell(@)]]]

\* the try block: [failed, data, report, issues]; failed means an exception
\* reached the bare except
CountyFipsTry(d, official) ==
    IF \E i \in 1..Len(d.rows) : ~CanParse(d.rows[i]["county_fips"])
    THEN [failed |-> TRUE, data |-> d, report |-> {}, issues |-> TRUE]
    ELSE
      LET d2 == AssignNumericCountyFips(d)
      IN  IF "county_name" \notin d.cols \/ d.rows = <<>>
          THEN [failed |-> TRUE, data |-> d2, report |-> {}, issues |-> TRUE]
          ELSE
            LET names == {c.str : c \in KeysOf(d2, "county_name")}
                df_map(name) ==
                    LET u == UniquePerKey(d2, "county_name", StrCell(name), "county_fips")
                    IN  [k \in 1..Len(u) |-> u[k].num]
                off_sub == SelectSeq(official, LAMBDA o : o.state = d.rows[1]["state"].str)
                off_names == {off_sub[k].county_name : k \in 1..Len(off_sub)}
                off_map(name) ==
                    LET sel == SelectSeq(off_sub, LAMBDA o : o.county_name = name)
                    IN  [k \in 1..Len(sel) |-> sel[k].county_fips]
                county_diffs == (names \ off_names) \cup (off_names \ names)
                nonmatches == {name \in names \ county_diffs : df_map(name) # off_map(name)}
            IN  [failed |-> FALSE, data |-> d2,
                 report |-> (IF county_diffs # {} THEN {"NOTE: cannot compare all county fips"} ELSE {})
                            \cup (IF nonmatches # {}
                                  THEN {"county name <-> fips matches do not match the official mapping"}
                                  ELSE {"No Problems Found :)"}),
                 issues |-> county_diffs # {} \/ nonmatches # {}]

\* [raises, data, report, issues]: raises means a KeyError left check_special
County_fips_check_special(d, official) ==
    IF "state" \notin d.cols
    THEN \* empty_states = set(data[...]['state']) is outside the try block
         [raises |-> TRUE, data |-> d, report |-> {}, issues |-> FALSE]
    ELSE LET t == CountyFipsTry(d, official)
         IN  [raises |-> FALSE, data |-> t.data,
              report |-> IF t.failed
                         THEN {"It was not possible to cast county fips as numeric and group them"}
                         ELSE t.report,
              issues |-> t.issues]

\* ---- Jurisdiction_name.check_special

\* the groups of data.groupby(['jurisdiction_name', 'county_name',
\* 'county_fips']) as the keys present in the data
JurisdictionGroupKeys(d) ==
    {<<d.rows[i]["jurisdiction_name"], d.rows[i]["county_name"], d.rows[i]["county_fips"]>> :
        i \in 1..Len(d.rows)}

\* ...['jurisdiction_fips'].unique() of one group
JurisdictionGroupFips(d, key) ==
    UniqueInOrder(
        [k \in 1..Len(SelectSeq(d.rows, LAMBDA r :
                         <<r["jurisdiction_name"], r["county_name"], r["county_fips"]>> = key)) |->
            SelectSeq(d.rows, LAMBDA r :
                <<r["jurisdiction_name"], r["county_name"], r["county_fips"]>> = key)[k]
                    ["jurisdiction_fips"]])

\* one entry [county_name, county_fips, fips.tolist()] per group of keys;
\* groupby visits the groups in sorted key order, the model in an order of
\* its own: the entries of a name are only counted and printed
RECURSIVE GroupEntries(_, _)
GroupEntries(d, keys) ==
    IF keys = {} THEN <<>>
    ELSE LET key == CHOOSE k \in keys : TRUE
         IN  <<[county_name |-> key[2], county_fips |-> key[3],
                fips |-> JurisdictionGroupFips(d, key)]>>
             \o GroupEntries(d, keys \ {key})

\* name_to_fips: per jurisdiction_name the list with one entry
\* [county_name, county_fips, [fips...]] for each group the name occurs in
JurisdictionNameToFips(d) ==
    {<<n, GroupEntries(d, {key \in JurisdictionGroupKeys(d) : key[1] = n})>> :
        n \in KeysOf(d, "jurisdiction_name")}

Jurisdiction_name_check_special(d) ==
    LET needed == <<"jurisdiction_fips", "county_name", "county_fips">>
        absent == SelectSeq(needed, LAMBDA c : c \notin d.cols)
    IN  IF absent # <<>>
        THEN [written |-> TRUE,
              output |-> {"column is not present, so checks could not performed."},
              issues |-> FALSE,
              irregulars |-> NotEvaluated]
        ELSE
          LET groups(n) == {<<d.rows[i]["county_name"], d.rows[i]["county_fips"]>> :
                               i \in {j \in 1..Len(d.rows) : d.rows[j]["jurisdiction_name"] = n}}
              irregulars_ntf == {n \in KeysOf(d, "jurisdiction_name") : Cardinality(groups(n)) > 1}
              irregulars_ftn ==
                  {f \in KeysOf(d, "jurisdiction_fips") :
                      Len(UniquePerKey(d, "jurisdiction_fips", f, "jurisdiction_name")) > 1}
          IN  [written |-> TRUE,
               irregulars |->
                   Irregulars({"ntf", "ftn"},
                              LongerThanOne(JurisdictionNameToFips(d)),
                              LongerThanOne(RelationLists(d, "jurisdiction_fips",
                                                          "jurisdiction_name"))),
               output |-> (IF irregulars_ntf = {} THEN {"name to fips: No Problems Found"}
                           ELSE {"(POSSIBLY) IRREGULAR JURISDICTION NAME TO FIPS RELATIONS"})
                          \cup (IF irregulars_ftn = {} THEN {"fips to names: No Problems Found"}
                                ELSE {"IRREGULAR JURISDICTION FIPS TO NAMES RELATIONS"}),
               issues |-> irregulars_ntf # {} \/ irregulars_ftn # {}]

\* ---- State.check_special -> Field.check_unique
State_check_special(d) ==
    LET values == KeysOf(d, "state")
    IN  [written |-> TRUE,
         output |-> {"STATE UNIQUENESS CHECK"},
         issues |-> Cardinality(values) # 1]

\* ---- the effect of one sub-check of check_all on the shared DataFrame, the
\* field's output file and SUMMARY.txt

Effect(d, fs, sm) == [data |-> d, files |-> fs, summary |-> sm, relations |-> relations]

\* the effect e of a relational check, and the irregular relations r the
\* check of the field f reported
Reporting(e, f, r) == [e EXCEPT !.relations = [relations EXCEPT ![f] = r]]

SummaryLine(check, key, issues) == IF issues THEN {<<check, key>>} ELSE {}

CharactersEffect(f) ==
    LET issues == CharacterIssues(fieldsData, f)
    IN  Effect(fieldsData,
               AddSection(files, f, Section("characters", {}, issues)),
               summary \cup SummaryLine("CHARACTER CHECK", f, issues))

\* the matcher's scan is modelled by SpecMatch; none of the modelled values
\* resembles an alias of its field's taxonomy
SimilaritiesEffect(f) ==
    Effect(fieldsData, AddSection(files, f, Section("similarities", {}, FALSE)), summary)

WrittenSpecial(f, r, check) ==
    Effect(fieldsData,
           IF r.written THEN AddSection(files, f, Section("special", r.output, r.issues))
           ELSE files,
           summary \cup SummaryLine(check, f, r.issues))

SpecialEffect(f) ==
    CASE f = "county_name" ->
            Reporting(WrittenSpecial(f, County_name_check_special(fieldsData), "SPECIAL CHECK"),
                      f, County_name_check_special(fieldsData).irregulars)
      [] f = "county_fips" ->
            LET r == County_fips_check_special(fieldsData, fipsOfficial)
            IN  Effect(r.data,
                       AddSection(files, f, Section("special", r.report, r.issues)),
                       summary \cup SummaryLine("SPECIAL CHECK", f, r.issues))
      [] f = "jurisdiction_name" ->
            Reporting(WrittenSpecial(f, Jurisdiction_name_check_special(fieldsData), "SPECIAL CHECK"),
                      f, Jurisdiction_name_check_special(fieldsData).irregulars)
      [] f = "state" ->
            WrittenSpecial(f, State_check_special(fieldsData), "UNIQUENESS CHECK")
      [] OTHER -> Effect(fieldsData, files, summary)   \* Field.check_special: no-op

SubCheckEffect(f, sub) ==
    CASE sub = "characters" -> CharactersEffect(f)
      [] sub = "similarities" -> SimilaritiesEffect(f)
      [] sub = "special" -> SpecialEffect(f)

Apply(e) ==
    /\ fieldsData' = e.data
    /\ files' = e.files
    /\ summary' = e.summary
    /\ relations' = e.relations

NextSub(sub) ==
    CASE sub = "enter" -> "characters"
      [] sub = "characters" -> "similarities"
      [] sub = "similarities" -> "special"
      [] sub = "special" -> "all_values"

\* check_all after 'except KeyboardInterrupt: print(Aborted ... query.)': the
\* next statement of check_all runs
AfterAbortReturn(sub) == "all_values"

AfterAbort(sub) == NextSub(sub)

\* qa_all: try: qa_stage1(...) except KeyboardInterrupt: the outcome of the
\* run when the exception exc leaves qa_stage1
QaAllNoCatch(exc) == "raised"

QaAllCatch(exc) == IF exc = "KeyboardInterrupt" THEN "returned" ELSE "raised"

NextField ==
    IF fieldIdx = Len(available_imports)
    THEN qaPc' = "check_duplicates" /\ fieldIdx' = fieldIdx /\ subPc' = "idle"
    ELSE qaPc' = qaPc /\ fieldIdx' = fieldIdx + 1 /\ subPc' = "enter"

InField(sub) == qaPc = "fields" /\ subPc = sub /\ CurrentField \in fieldsData.cols

InitRun(d, official, interrupts) ==
    /\ stageData = d
    /\ fieldsData = d
    /\ fipsOfficial = official
    /\ qaPc = "init_summary"
    /\ fieldIdx = 0
    /\ subPc = "idle"
    /\ executed = {}
    /\ aborted = {}
    /\ files = [k \in FileKeys |-> {}]
    /\ summary = {}
    /\ relations = [f \in RelationalFields |-> NotEvaluated]
    /\ interruptsLeft = interrupts
    /\ cancelled = FALSE

\* init_summary: SUMMARY.txt is opened with w+
InitSummary ==
    /\ qaPc = "init_summary"
    /\ summary' = {}
    /\ executed' = executed \cup {RunStep("init_summary")}
    /\ qaPc' = "check_columns"
    /\ UNCHANGED <<relations, stageData, fieldsData, fipsOfficial, fieldIdx, subPc, aborted, files,
                   interruptsLeft, cancelled, dupVars, matchVars, officeVars, statsVars>>

QaCheckColumns ==
    /\ qaPc = "check_columns"
    /\ LET lacks == expected_columns \ stageData.cols
           extra == stageData.cols \ expected_columns
           issues == lacks # {} \/ extra # {}
           report == (IF lacks \cup extra = {} THEN {"*Dataset has exactly all expected columns"} ELSE {})
                     \cup (IF lacks # {} THEN {"*Dataset lacks expected columns"} ELSE {})
                     \cup (IF extra # {} THEN {"*Dataset has extraneous columns"} ELSE {})
       IN  /\ files' = [files EXCEPT !["columns"] = {Section("columns", report, issues)}]
           /\ summary' = summary \cup SummaryLine("COLUMN CHECK", "columns", issues)
    /\ executed' = executed \cup {RunStep("check_columns")}
    /\ qaPc' = "check_fields"
    /\ UNCHANGED <<relations, stageData, fieldsData, fipsOfficial, fieldIdx, subPc, aborted,
                   interruptsLeft, cancelled, dupVars, matchVars, officeVars, statsVars>>

\* qa_check_fields: data = data.fillna(EMPTY_RECORD), a new DataFrame that every
\* field's check_all is handed
QaCheckFieldsEnter ==
    /\ qaPc = "check_fields"
    /\ fieldsData' = stageData
    /\ fieldIdx' = 1
    /\ subPc' = "enter"
    /\ qaPc' = "fields"
    /\ UNCHANGED <<relations, stageData, fipsOfficial, executed, aborted, files, summary,
                   interruptsLeft, cancelled, dupVars, matchVars, officeVars, statsVars>>

\* qa_check_fields: 'if field_name not in data: ... continue'
FieldMissing ==
    /\ qaPc = "fields" /\ subPc = "enter"
    /\ CurrentField \notin fieldsData.cols
    /\ files' = [files EXCEPT ![CurrentField] =
                    {Section("missing_note", {"*Dataset does not have column"}, FALSE)}]
    /\ executed' = executed \cup {<<CurrentField, "missing_note">>}
    /\ NextField
    /\ UNCHANGED <<relations, stageData, fieldsData, fipsOfficial, aborted, summary,
                   interruptsLeft, cancelled, dupVars, matchVars, officeVars, statsVars>>

\* check_all up to filtered_values = obtain(...)
CheckAllHeader ==
    /\ InField("enter")
    /\ files' = [files EXCEPT ![CurrentField] = {Section("header", {}, FALSE)}]
    /\ executed' = executed \cup {<<CurrentField, "header">>}
    /\ subPc' = NextSub(subPc)
    /\ UNCHANGED <<relations, stageData, fieldsData, fipsOfficial, qaPc, fieldIdx, aborted, summary,
                   interruptsLeft, cancelled, dupVars, matchVars, officeVars, statsVars>>

SubCheckDone(sub) ==
    /\ Apply(SubCheckEffect(CurrentField, sub))
    /\ executed' = executed \cup {<<CurrentField, sub>>}
    /\ subPc' = NextSub(sub)
    /\ UNCHANGED <<stageData, fipsOfficial, qaPc, fieldIdx, aborted,
                   interruptsLeft, cancelled, dupVars, matchVars, officeVars, statsVars>>

CheckCharacters == InField("characters") /\ SubCheckDone("characters")

CheckSimilarities == InField("similarities") /\ SubCheckDone("similarities")

CheckSpecialCountyName ==
    InField("special") /\ CurrentField = "county_name" /\ SubCheckDone("special")

CheckSpecialCountyFips ==
    /\ InField("special") /\ CurrentField = "county_fips"
    /\ ~County_fips_check_special(fieldsData, fipsOfficial).raises
    /\ SubCheckDone("special")

\* the KeyError of data[...]['state'] leaves check_special, check_all,
\* qa_check_fields, qa_stage1 and qa_all
CheckSpecialCountyFipsKeyError ==
    /\ InField("special") /\ CurrentField = "county_fips"
    /\ County_fips_check_special(fieldsData, fipsOfficial).raises
    /\ qaPc' = QaAllCatch("KeyError")
    /\ UNCHANGED <<relations, stageData, fieldsData, fipsOfficial, fieldIdx, subPc, executed, aborted,
                   files, summary, interruptsLeft, cancelled, dupVars, matchVars, officeVars, statsVars>>

CheckSpecialJurisdictionName ==
    InField("special") /\ CurrentField = "jurisdiction_name" /\ SubCheckDone("special")

CheckSpecialState ==
    InField("special") /\ CurrentField = "state" /\ SubCheckDone("special")

CheckSpecialDefault ==
    /\ InField("special")
    /\ CurrentField \notin {"county_name", "county_fips", "jurisdiction_name", "state"}
    /\ SubCheckDone("special")

\* check_all: the ALL VALUES section
CheckAllValues ==
    /\ InField("all_values")
    /\ files' = AddSection(files, CurrentField, Section("all_values", {}, FALSE))
    /\ executed' = executed \cup {<<CurrentField, "all_values">>}
    /\ NextField
    /\ UNCHANGED <<relations, stageData, fieldsData, fipsOfficial, aborted, summary,
                   interruptsLeft, cancelled, dupVars, matchVars, officeVars, statsVars>>

\* sum(data.duplicated()): the rows equal to an earlier row on the columns cs
NumDuplicated(d, cs) ==
    Cardinality({i \in 1..Len(d.rows) :
                    \E j \in 1..(i - 1) : \A c \in cs : d.rows[j][c] = d.rows[i][c]})

ExactDuplicatesReport(d) ==
    IF NumDuplicated(d, d.cols) > 0 THEN {"*There are exactly duplicated rows"} ELSE {}

QaCheckDuplicates ==
    /\ qaPc = "check_duplicates"
    /\ "votes" \in stageData.cols
    /\ LET numDups == NumDuplicated(stageData, stageData.cols)
           numNearDups == NumDuplicated(stageData, stageData.cols \ {"votes"})
           report == ExactDuplicatesReport(stageData)
                     \cup (IF numNearDups > 0 THEN {"*There are rows duplicated except for the vote totals"} ELSE {})
                     \cup (IF numDups = 0 /\ numNearDups = 0
                           THEN {"*No duplicated or near-duplicated rows found."} ELSE {})
       IN  /\ files' = [files EXCEPT !["duplicates"] =
                           {Section("duplicates", report, numDups > 0 \/ numNearDups > 0)}]
           /\ summary' = summary
                \cup SummaryLine("DUPLICATES CHECK found duplicated rows", "duplicates", numDups > 0)
                \cup SummaryLine("DUPLICATES CHECK found nearly duplicated rows", "duplicates", numNearDups > 0)
    /\ executed' = executed \cup {RunStep("check_duplicates")}
    /\ qaPc' = "wrap_summary"
    /\ UNCHANGED <<relations, stageData, fieldsData, fipsOfficial, fieldIdx, subPc, aborted,
                   interruptsLeft, cancelled, dupVars, matchVars, officeVars, statsVars>>

\* data.drop(["votes"], axis=1) raises KeyError when the column is absent,
\* after the exact duplicates were written
QaCheckDuplicatesKeyError ==
    /\ qaPc = "check_duplicates"
    /\ "votes" \notin stageData.cols
    /\ LET numDups == NumDuplicated(stageData, stageData.cols)
       IN  /\ files' = [files EXCEPT !["duplicates"] =
                           IF numDups > 0
                           THEN {Section("duplicates", ExactDuplicatesReport(stageData), TRUE)}
                           ELSE {}]
           /\ summary' = summary
                \cup SummaryLine("DUPLICATES CHECK found duplicated rows", "duplicates", numDups > 0)
    /\ qaPc' = QaAllCatch("KeyError")
    /\ UNCHANGED <<relations, stageData, fieldsData, fipsOfficial, fieldIdx, subPc, executed, aborted,
                   interruptsLeft, cancelled, dupVars, matchVars, officeVars, statsVars>>

\* wrap_summary, then qa_stage1 and qa_all return
WrapSummary ==
    /\ qaPc = "wrap_summary"
    /\ summary' = summary \cup {<<"REMINDERS", "summary">>}
    /\ executed' = executed \cup {RunStep("wrap_summary")}
    /\ qaPc' = "returned"
    /\ UNCHANGED <<relations, stageData, fieldsData, fipsOfficial, fieldIdx, subPc, aborted, files,
                   interruptsLeft, cancelled, dupVars, matchVars, officeVars, statsVars>>

\* ---- KeyboardInterrupt

\* the step in flight
InFlight ==
    IF qaPc = "fields"
    THEN <<CurrentField,
           IF CurrentField \notin fieldsData.cols THEN "missing_note"
           ELSE IF subPc = "enter" THEN "header" ELSE subPc>>
    ELSE RunStep(IF qaPc = "check_fields" THEN "check_fields" ELSE qaPc)

\* the interrupt arrives inside one of the three try blocks of check_all,
\* before the sub-check did anything (done = FALSE) or after it did everything
\* but return (done = TRUE); check_all goes on with its next statement
InterruptSubCheck ==
    /\ interruptsLeft > 0
    /\ qaPc = "fields" /\ subPc \in GuardedSubSteps /\ CurrentField \in fieldsData.cols
    /\ \E done \in BOOLEAN :
          /\ done => ~(subPc = "special" /\ CurrentField = "county_fips"
                       /\ County_fips_check_special(fieldsData, fipsOfficial).raises)
          /\ IF done THEN Apply(SubCheckEffect(CurrentField, subPc))
             ELSE UNCHANGED <<relations, fieldsData, files, summary>>
    /\ aborted' = aborted \cup {InFlight}
    /\ subPc' = AfterAbort(subPc)
    /\ interruptsLeft' = interruptsLeft - 1
    /\ UNCHANGED <<stageData, fipsOfficial, qaPc, fieldIdx, executed, cancelled, dupVars, matchVars, officeVars, statsVars>>

\* the interrupt arrives inside the try block of County_fips.check_special,
\* whose bare except takes it for a failed cast: the check reports that and
\* completes.  assigned: the interrupt came after data['county_fips'] = ...
InterruptInsideCountyFipsTry ==
    /\ interruptsLeft > 0
    /\ InField("special") /\ CurrentField = "county_fips"
    /\ "state" \in fieldsData.cols
    /\ \E assigned \in BOOLEAN :
          /\ assigned => \A i \in 1..Len(fieldsData.rows) : CanParse(fieldsData.rows[i]["county_fips"])
          /\ fieldsData' = IF assigned THEN AssignNumericCountyFips(fieldsData) ELSE fieldsData
    /\ files' = AddSection(files, CurrentField,
                    Section("special",
                            {"It was not possible to cast county fips as numeric and group them"},
                            TRUE))
    /\ summary' = summary \cup {<<"SPECIAL CHECK", CurrentField>>}
    /\ executed' = executed \cup {InFlight}
    /\ subPc' = NextSub(subPc)
    /\ interruptsLeft' = interruptsLeft - 1
    /\ UNCHANGED <<relations, stageData, fipsOfficial, qaPc, fieldIdx, aborted, cancelled, dupVars, matchVars, officeVars, statsVars>>

\* the interrupt arrives anywhere else in qa_stage1 (a run-level check, the
\* unguarded statements of check_all, between two try blocks): it leaves
\* qa_stage1 and qa_all prints 'Canceled remaining QA checks.'
InterruptUnguarded ==
    /\ interruptsLeft > 0
    /\ qaPc \in {"init_summary", "check_columns", "check_fields", "fields",
                 "check_duplicates", "wrap_summary"}
    /\ aborted' = aborted \cup {InFlight}
    /\ cancelled' = (QaAllCatch("KeyboardInterrupt") = "returned")
    /\ qaPc' = QaAllCatch("KeyboardInterrupt")
    /\ interruptsLeft' = interruptsLeft - 1
    /\ UNCHANGED <<relations, stageData, fieldsData, fipsOfficial, fieldIdx, subPc, executed, files,
                   summary, dupVars, matchVars, officeVars, statsVars>>

RunSteps ==
    \/ InitSummary
    \/ QaCheckColumns
    \/ QaCheckFieldsEnter
    \/ FieldMissing
    \/ CheckAllHeader
    \/ CheckCharacters
    \/ CheckSimilarities
    \/ CheckSpecialCountyName
    \/ CheckSpecialCountyFips
    \/ CheckSpecialJurisdictionName
    \/ CheckSpecialState
    \/ CheckSpecialDefault
    \/ CheckAllValues
    \/ QaCheckDuplicates
    \/ WrapSummary

\* runs the user may interrupt, on datasets that have every modelled column
InitQA ==
    /\ IdleDup /\ IdleMatch /\ IdleOffice /\ IdleStats
    /\ \E d \in QaDatasets(MaxRunRows, 0) : InitRun(d, OfficialFile, MaxInterrupts)

NextQA ==
    \/ RunSteps
    \/ InterruptSubCheck
    \/ InterruptInsideCountyFipsTry
    \/ InterruptUnguarded

SpecQA == InitQA /\ [][NextQA]_vars

\* uninterrupted runs, on datasets that may lack expected columns
InitFields ==
    /\ IdleDup /\ IdleMatch /\ IdleOffice /\ IdleStats
    /\ \E d \in QaDatasets(MaxQaRows, MaxMissing), o \in OfficialTables : InitRun(d, o, 0)

NextFields ==
    \/ RunSteps
    \/ CheckSpecialCountyFipsKeyError
    \/ QaCheckDuplicatesKeyError

SpecFields == InitFields /\ [][NextFields]_vars

\* the KeyboardInterrupts delivered so far
Delivered == MaxInterrupts - interruptsLeft

C5_CancellationNeverLeavesQaAll ==
    Delivered > 0 => qaPc # "raised"

\* C5 witness: qa_all caught an interrupt that left qa_stage1, and returned
C5_Witness ==
    /\ qaPc = "returned"
    /\ cancelled
    /\ Delivered > 0

\* bound on the records of a dataset of the relational checks (SpecRelations)
MaxRelRows == 2

\* records whose county and jurisdiction names and codes vary
RelRowValues ==
    {[c \in QaColumns |->
        CASE c = "county_name" -> StrCell(n)
          [] c = "county_fips" -> StrCell(f)
          [] c = "state" -> StrCell("S")
          [] c = "votes" -> IntCell(5)
          [] c = "jurisdiction_name" -> StrCell(jn)
          [] c = "jurisdiction_fips" -> StrCell(jf)] :
        n \in {"A", "B"}, f \in {"1", "01"}, jn \in {"J", "K"}, jf \in {"5", "10"}}

RelDatasets == [cols : {QaColumns}, rows : SeqsUpTo(RelRowValues, MaxRelRows)]

\* uninterrupted runs on datasets that have every modelled column
InitRelations ==
    /\ IdleDup /\ IdleMatch /\ IdleOffice /\ IdleStats
    /\ \E d \in RelDatasets : InitRun(d, OfficialFile, 0)

NextRelations == RunSteps

SpecRelations == InitRelations /\ [][NextRelations]_vars

\* the distinct values of the column col that co-occur in the dataset with
\* the value key of the column by
CoOccurring(d, by, key, col) ==
    {d.rows[i][col] : i \in {j \in 1..Len(d.rows) : d.rows[j][by] = key}}

\* the lines of one direction report exactly the source values with more
\* than one co-occurring target value, each with the whole set of them
ReportsIrregularSets(lines, d, by, col) ==
    /\ \A key \in KeysOf(d, by) :
           (\E line \in lines : line[1] = key) <=> Cardinality(CoOccurring(d, by, key, col)) > 1
    /\ \A line \in lines :
           /\ line[1] \in KeysOf(d, by)
           /\ Range(line[2]) = CoOccurring(d, by, line[1], col)

\* C21: in the county name/FIPS relational check, for each direction
\* separately, a source value is reported as irregular if and only if more
\* than one distinct target value co-occurs with it in the dataset, the
\* report lists that whole set, and both directions are evaluated in every
\* run of the check.
C21_CountyRelationsBothDirections ==
    <<"county_name", "special">> \in executed =>
        /\ relations["county_name"].evaluated = {"ntf", "ftn"}
        /\ ReportsIrregularSets(relations["county_name"].ntf, stageData,
                                "county_name", "county_fips")
        /\ ReportsIrregularSets(relations["county_name"].ftn, stageData,
                                "county_fips", "county_name")

\* C21 witness: the check has run on a dataset in which a county name has two
\* codes while no code has two names: the directions differ in outcome
C21_Witness ==
    /\ <<"county_name", "special">> \in executed
    /\ relations["county_name"].ntf # {}
    /\ relations["county_name"].ftn = {}

\* C22: in the jurisdiction name/FIPS relational check a jurisdiction_name is
\* flagged in the name-to-fips direction exactly when more than one distinct
\* jurisdiction_fips value co-occurs with it in the dataset.
C22_JurisdictionNameFlaggedOnSeveralFips ==
    <<"jurisdiction_name", "special">> \in executed =>
        \A n \in KeysOf(stageData, "jurisdiction_name") :
            (\E line \in relations["jurisdiction_name"].ntf : line[1] = n)
            <=> Cardinality(CoOccurring(stageData, "jurisdiction_name", n,
                                        "jurisdiction_fips")) > 1

\* the columns the special check of a field reads besides its own
NeededColumns(f) ==
    CASE f = "county_name" -> {"county_fips"}
      [] f = "county_fips" -> {"state", "county_name"}
      [] f = "jurisdiction_name" -> {"jurisdiction_fips", "county_name", "county_fips"}
      [] OTHER -> {}

SkippedOutcome(key, name) ==
    \E sec \in files[key] : sec.section = name /\ ~sec.issues /\ sec.report # {}

\* C6: when a column a check needs is absent, the run does not raise, that
\* check ends with a 'check skipped' outcome (an explanatory note in its output
\* and no issue recorded), and every other check is executed.
C6_MissingColumnIsSoftSkip ==
    qaPc \in {"returned", "raised"} =>
        /\ qaPc = "returned"
        /\ AllSteps(stageData.cols) \subseteq executed
        /\ \A f \in stageData.cols :
              ~(NeededColumns(f) \subseteq stageData.cols) => SkippedOutcome(f, "special")
        /\ "votes" \notin stageData.cols => SkippedOutcome("duplicates", "duplicates")

\* C7: no check modifies the dataset it is handed: every cell of the DataFrame
\* shared by the field checks keeps the value and the type it was loaded with.
C7_ChecksLeaveDatasetUnchanged ==
    fieldsData = stageData

\* ------------------------------------------------------------------------
\* Python strings.  A str is a TLA+ string; s[i:j] is Slice(s, i, j) with
\* Python's 0-based half-open bounds
\* ------------------------------------------------------------------------

\* the printable ASCII characters in code point order: ' ' (32) to '_' (95)
\* and 'a' (97) to '~' (126)
AsciiLow ==
    " !\"#$%&'()*+,-./0123456789:;<=>?@ABCDEFGHIJKLMNOPQRSTUVWXYZ[\\]^_"

AsciiHigh == "abcdefghijklmnopqrstuvwxyz{|}~"

AsciiChars ==
    {SubSeq(AsciiLow, i, i) : i \in 1..Len(AsciiLow)} \cup
    {SubSeq(AsciiHigh, i, i) : i \in 1..Len(AsciiHigh)}

\* ord(c)
Ord ==
    [c \in AsciiChars |->
        IF \E i \in 1..Len(AsciiLow) : SubSeq(AsciiLow, i, i) = c
        THEN 31 + CHOOSE i \in 1..Len(AsciiLow) : SubSeq(AsciiLow, i, i) = c
        ELSE 96 + CHOOSE i \in 1..Len(AsciiHigh) : SubSeq(AsciiHigh, i, i) = c]

\* chr(n)
Chr(n) ==
    IF n <= 95 THEN SubSeq(AsciiLow, n - 31, n - 31)
    ELSE SubSeq(AsciiHigh, n - 96, n - 96)

Slice(s, i, j) == SubSeq(s, i + 1, j)

CharAt(s, i) == SubSeq(s, i + 1, i + 1)

RECURSIVE MapChars(_, _)
\* ''.join(f[c] for c in s)
MapChars(f, s) ==
    IF s = "" THEN "" ELSE f[Head(s)] \o MapChars(f, Tail(s))

\* str.upper() and str.lower(), one character at a time
UpperChar ==
    [c \in AsciiChars |->
        IF Ord[c] >= 97 /\ Ord[c] <= 122 THEN Chr(Ord[c] - 32) ELSE c]

LowerChar ==
    [c \in AsciiChars |->
        IF Ord[c] >= 65 /\ Ord[c] <= 90 THEN Chr(Ord[c] + 32) ELSE c]

Upper(s) == MapChars(UpperChar, s)

Lower(s) == MapChars(LowerChar, s)

RECURSIVE LStrip(_)
LStrip(s) == IF s # "" /\ Head(s) = " " THEN LStrip(Tail(s)) ELSE s

RECURSIVE RStrip(_)
RStrip(s) ==
    IF s # "" /\ CharAt(s, Len(s) - 1) = " "
    THEN RStrip(Slice(s, 0, Len(s) - 1)) ELSE s

\* str.strip()
Strip(s) == RStrip(LStrip(s))

\* sub in s
Contains(sub, s) ==
    \E i \in 0..(Len(s) - Len(sub)) : Slice(s, i, i + Len(sub)) = sub

\* s.startswith(prefix)
StartsWith(s, prefix) ==
    Len(prefix) <= Len(s) /\ Slice(s, 0, Len(prefix)) = prefix

\* the position of the first blank of t, len(t) if it has none
FirstBlank(t) ==
    IF \E i \in 0..(Len(t) - 1) : CharAt(t, i) = " "
    THEN CHOOSE i \in 0..(Len(t) - 1) :
             /\ CharAt(t, i) = " "
             /\ \A k \in 0..(i - 1) : CharAt(t, k) # " "
    ELSE Len(t)

RECURSIVE Split(_)
SplitAt(t, n) == <<Slice(t, 0, n)>> \o Split(Slice(t, n, Len(t)))

SplitStripped(t) == IF t = "" THEN <<>> ELSE SplitAt(t, FirstBlank(t))

\* s.split(): the maximal runs of non-blank characters, in order
Split(s) == SplitStripped(LStrip(s))

RECURSIVE Join(_)
\* ' '.join(parts)
Join(parts) ==
    IF parts = <<>> THEN ""
    ELSE IF Len(parts) = 1 THEN parts[1]
    ELSE parts[1] \o " " \o Join(Tail(parts))

RECURSIVE StrLess(_, _)
\* a < b for two str: lexicographic by code point
StrLess(a, b) ==
    IF b = "" THEN FALSE
    ELSE IF a = "" THEN TRUE
    ELSE IF Head(a) # Head(b) THEN Ord[Head(a)] < Ord[Head(b)]
    ELSE StrLess(Tail(a), Tail(b))

\* min(S) for a non-empty set of str
MinString(S) == CHOOSE x \in S : \A y \in S \ {x} : StrLess(x, y)

RECURSIVE SortedStrings(_)
SortedFrom(S, m) == <<m>> \o SortedStrings(S \ {m})

\* sorted(S) for a set of str
SortedStrings(S) == IF S = {} THEN <<>> ELSE SortedFrom(S, MinString(S))

RoundHalfEven(q, r, den) ==
    IF 2 * r < den THEN q
    ELSE IF 2 * r > den THEN q + 1
    ELSE IF q % 2 = 0 THEN q ELSE q + 1

\* round(num / den) for num >= 0, den > 0: Python 3 rounds halves to even
RoundDiv(num, den) == RoundHalfEven(num \div den, num % den, den)

MaxOf(S) == CHOOSE x \in S : \A y \in S : y <= x

\* ------------------------------------------------------------------------
\* difflib.SequenceMatcher (no junk; autojunk only acts from 200 characters)
\* ------------------------------------------------------------------------

RECURSIVE MatchLen(_, _, _, _, _, _)
\* the length of the longest common run a[i:i+k] = b[j:j+k] inside the bounds
MatchLen(a, i, ahi, b, j, bhi) ==
    IF i < ahi /\ j < bhi /\ CharAt(a, i) = CharAt(b, j)
    THEN 1 + MatchLen(a, i + 1, ahi, b, j + 1, bhi)
    ELSE 0

\* of the blocks ks, the one that starts earliest in a and, of those, the one
\* that starts earliest in b
EarliestBlock(ks) ==
    CHOOSE c \in ks : \A d \in ks : c[1] < d[1] \/ (c[1] = d[1] /\ c[2] <= d[2])

LongestBlocks(live, k) == {c \in live : c[3] = k}

PickBlock(live, alo, blo) ==
    IF live = {} THEN <<alo, blo, 0>>
    ELSE EarliestBlock(LongestBlocks(live, MaxOf({c[3] : c \in live})))

\* find_longest_match: <<i, j, k>>, the longest block a[i:i+k] = b[j:j+k], of
\* those the one that starts earliest in a, of those the earliest in b
find_longest_match(a, alo, ahi, b, blo, bhi) ==
    PickBlock({c \in {<<i, j, MatchLen(a, i, ahi, b, j, bhi)>> :
                         i \in alo..(ahi - 1), j \in blo..(bhi - 1)} : c[3] > 0},
              alo, blo)

RECURSIVE MatchingBlocksIn(_, _, _, _, _, _)
\* the blocks to the left of the longest match m, m, the blocks to its right
BlocksAround(a, alo, ahi, b, blo, bhi, m) ==
    IF m[3] = 0 THEN <<>>
    ELSE (IF alo < m[1] /\ blo < m[2]
          THEN MatchingBlocksIn(a, alo, m[1], b, blo, m[2]) ELSE <<>>)
         \o <<m>> \o
         (IF m[1] + m[3] < ahi /\ m[2] + m[3] < bhi
          THEN MatchingBlocksIn(a, m[1] + m[3], ahi, b, m[2] + m[3], bhi)
          ELSE <<>>)

MatchingBlocksIn(a, alo, ahi, b, blo, bhi) ==
    BlocksAround(a, alo, ahi, b, blo, bhi, find_longest_match(a, alo, ahi, b, blo, bhi))

\* get_matching_blocks(): the blocks in increasing order and the closing
\* (len(a), len(b), 0)
get_matching_blocks(a, b) ==
    MatchingBlocksIn(a, 0, Len(a), b, 0, Len(b)) \o <<<<Len(a), Len(b), 0>>>>

RECURSIVE SumSizes(_)
SumSizes(blocks) ==
    IF blocks = <<>> THEN 0 ELSE Head(blocks)[3] + SumSizes(Tail(blocks))

\* SequenceMatcher(None, a, b).ratio() = 2.0 * matches / (len(a) + len(b)),
\* as the fraction <<numerator, denominator>>; 1.0 for two empty strings
SeqRatio(a, b) ==
    IF Len(a) + Len(b) = 0 THEN <<1, 1>>
    ELSE <<2 * SumSizes(get_matching_blocks(a, b)), Len(a) + Len(b)>>

\* x <= y for two fractions with positive denominators
FracLeq(x, y) == x[1] * y[2] <= y[1] * x[2]

\* ------------------------------------------------------------------------
\* fuzzywuzzy, as process.extract(query, [choice]) uses it: both strings go
\* through utils.full_process and are scored by fuzz.WRatio.  Scores are
\* integers 0..100
\* ------------------------------------------------------------------------

IsWordChar(c) ==
    LET o == Ord[c]
    IN  \/ o >= 48 /\ o <= 57
        \/ o >= 65 /\ o <= 90
        \/ o >= 97 /\ o <= 122
        \/ o = 95

NonWordToBlank == [c \in AsciiChars |-> IF IsWordChar(c) THEN c ELSE " "]

\* utils.full_process: non-letters-non-numbers become blanks, lower(), strip()
full_process(s) == Strip(Lower(MapChars(NonWordToBlank, s)))

IntOfFrac(r) == RoundDiv(100 * r[1], r[2])

\* utils.intr(100 * SequenceMatcher(None, s1, s2).ratio())
IntRatio(s1, s2) == IntOfFrac(SeqRatio(s1, s2))

\* fuzz.ratio with its decorators check_for_equivalence, check_empty_string
fuzz_ratio(s1, s2) ==
    IF s1 = s2 THEN 100
    ELSE IF s1 = "" \/ s2 = "" THEN 0
    ELSE IntRatio(s1, s2)

\* longer[long_start:long_end] for a matching block of (shorter, longer)
Window(shorter, longer, long_start) ==
    Slice(longer, long_start,
          IF long_start + Len(shorter) <= Len(longer)
          THEN long_start + Len(shorter) ELSE Len(longer))

BlockWindow(shorter, longer, blk) ==
    Window(shorter, longer, IF blk[2] - blk[1] > 0 THEN blk[2] - blk[1] ELSE 0)

\* 100 as soon as a window scores above .995, else the best window's score
BestWindow(scores) ==
    IF \E r \in scores : 1000 * r[1] > 995 * r[2] THEN 100
    ELSE IntOfFrac(CHOOSE x \in scores : \A y \in scores : FracLeq(y, x))

WindowScores(shorter, longer, blocks) ==
    {SeqRatio(shorter, BlockWindow(shorter, longer, blocks[n])) : n \in 1..Len(blocks)}

PartialRatioOrdered(shorter, longer) ==
    BestWindow(WindowScores(shorter, longer, get_matching_blocks(shorter, longer)))

\* fuzz.partial_ratio: the shorter string against the window of the longer
\* one each matching block lines up with
fuzz_partial_ratio(s1, s2) ==
    IF s1 = s2 THEN 100
    ELSE IF s1 = "" \/ s2 = "" THEN 0
    ELSE IF Len(s1) <= Len(s2) THEN PartialRatioOrdered(s1, s2)
    ELSE PartialRatioOrdered(s2, s1)

RECURSIVE InsertStr(_, _)
InsertStr(sorted, s) ==
    IF sorted = <<>> THEN <<s>>
    ELSE IF StrLess(s, Head(sorted)) THEN <<s>> \o sorted
    ELSE <<Head(sorted)>> \o InsertStr(Tail(sorted), s)

RECURSIVE SortedList(_)
\* sorted(tokens) for a list of str
SortedList(tokens) ==
    IF tokens = <<>> THEN <<>>
    ELSE InsertStr(SortedList(Tail(tokens)), Head(tokens))

\* fuzz._process_and_sort without full_process
ProcessAndSort(s) == Strip(Join(SortedList(Split(s))))

\* ratio_func = partial_ratio if partial else ratio
RatioFunc(x, y, partial) ==
    IF partial THEN fuzz_partial_ratio(x, y) ELSE fuzz_ratio(x, y)

\* fuzz._token_sort(full_process=False)
TokenSort(s1, s2, partial) == RatioFunc(ProcessAndSort(s1), ProcessAndSort(s2), partial)

PairwiseMax(sect, combined_1to2, combined_2to1, partial) ==
    MaxOf({RatioFunc(sect, combined_1to2, partial),
           RatioFunc(sect, combined_2to1, partial),
           RatioFunc(combined_1to2, combined_2to1, partial)})

TokenSetSorted(sorted_sect, sorted_1to2, sorted_2to1, partial) ==
    PairwiseMax(Strip(sorted_sect),
                Strip(sorted_sect \o " " \o sorted_1to2),
                Strip(sorted_sect \o " " \o sorted_2to1), partial)

TokenSetOf(tokens1, tokens2, partial) ==
    TokenSetSorted(Join(SortedStrings(tokens1 \cap tokens2)),
                   Join(SortedStrings(tokens1 \ tokens2)),
                   Join(SortedStrings(tokens2 \ tokens1)), partial)

\* set(p.split())
TokenSetFrom(tokens) == {tokens[n] : n \in 1..Len(tokens)}

\* fuzz._token_set(full_process=False)
TokenSet(p1, p2, partial) ==
    IF p1 = p2 THEN 100
    ELSE IF p1 = "" \/ p2 = "" THEN 0
    ELSE TokenSetOf(TokenSetFrom(Split(p1)), TokenSetFrom(Split(p2)), partial)

\* WRatio without partial matching: unbase_scale .95 (thousandths)
WRatioWhole(p1, p2) ==
    RoundDiv(MaxOf({1000 * fuzz_ratio(p1, p2),
                    950 * TokenSort(p1, p2, FALSE),
                    950 * TokenSet(p1, p2, FALSE)}),
             1000)

\* WRatio with partial matching: partial_scale in hundredths
WRatioPartial(p1, p2, partial_scale) ==
    RoundDiv(MaxOf({1000 * fuzz_ratio(p1, p2),
                    10 * partial_scale * fuzz_partial_ratio(p1, p2),
                    (95 * partial_scale * TokenSort(p1, p2, TRUE)) \div 10,
                    (95 * partial_scale * TokenSet(p1, p2, TRUE)) \div 10}),
             1000)

WRatioByLength(p1, p2, longest, shortest) ==
    IF 2 * longest < 3 * shortest THEN WRatioWhole(p1, p2)
    ELSE WRatioPartial(p1, p2, IF longest > 8 * shortest THEN 60 ELSE 90)

\* fuzz.WRatio on two processed strings: partial matching is tried from a
\* length ratio of 1.5, with partial_scale .90, or .60 above a ratio of 8;
\* the candidates are kept in thousandths so that utils.intr rounds once
WRatio(p1, p2) ==
    IF p1 = "" \/ p2 = "" THEN 0
    ELSE IF Len(p1) >= Len(p2) THEN WRatioByLength(p1, p2, Len(p1), Len(p2))
    ELSE WRatioByLength(p1, p2, Len(p2), Len(p1))

\* process.extract(query, [choice])[0][1]
ExtractScore(query, choice) == WRatio(full_process(query), full_process(choice))

\* ------------------------------------------------------------------------
\* The taxonomy matcher: Field.check_similarities and Field._explore, run
\* from the second try block of Field.check_all
\* ------------------------------------------------------------------------

MaxValues == 3

\* sets of at most this many aliases are enumerated in every order, larger
\* ones in the rotations of their sorted listing
MaxPermuted == 3

\* qa_check_fields(similarity_sensitivity=90), _explore(sensitivity=90)
sensitivity == 90

\* the score of a match that carries no numeric confidence: (entry, None)
NoScore == -1

\* the Office field: an excerpt of Office.DEFAULT_SIMILARITIES, the merge of
\* _just_office_similarities and GENERAL_SIMILARITIES, in declaration order
OfficeSimilarities ==
    << [name |-> "PRESIDENT", value |-> {"PRESIDENT", "PRES"}],
       [name |-> "EXACT_EMPTY",
        value |-> {"", "NA", "NAN", " ", "\"\"", EMPTY_RECORD}] >>

\* values of the office column, listed as sorted() lists them
OfficeValues ==
    << "\"\"", EMPTY_RECORD, "ESIDENT", "MAYOR", "PRES", "PRES.", "PRESI", "PRESID",
       "PRESIDENT" >>

RECURSIVE SubLists(_, _)
\* the sub-lists of at most n elements of a list, in the list's order
SubLists(list, n) ==
    IF list = <<>> \/ n = 0 THEN {<<>>}
    ELSE {<<Head(list)>> \o t : t \in SubLists(Tail(list), n - 1)}
         \cup SubLists(Tail(list), n)

\* miscellaneous.obtain: the sorted list of the unique values of the column
ObtainedValues(maxValues) == SubLists(OfficeValues, maxValues)

\* the orders in which iterating a set of str may enumerate it
EnumerationOrders(S) ==
    LET n == Cardinality(S)
        listing == SortedStrings(S)
    IN  IF n <= MaxPermuted
        THEN {f \in [1..n -> S] : \A a, b \in 1..n : a # b => f[a] # f[b]}
        ELSE {[k \in 1..n |-> listing[((k + r - 1) % n) + 1]] : r \in 0..(n - 1)}

\* one enumeration order for every category of the taxonomy
TaxonomyOrders(similarities) ==
    {ord \in [1..Len(similarities) -> UNION {EnumerationOrders(similarities[c].value) :
                                               c \in 1..Len(similarities)}] :
        \A c \in 1..Len(similarities) : ord[c] \in EnumerationOrders(similarities[c].value)}

RECURSIVE InsertByLen(_, _)
InsertByLen(sorted, s) ==
    IF sorted = <<>> THEN <<s>>
    ELSE IF Len(s) < Len(Head(sorted)) THEN <<s>> \o sorted
    ELSE <<Head(sorted)>> \o InsertByLen(Tail(sorted), s)

RECURSIVE SortedByLen(_)
\* sorted(values, key=len): stable
SortedByLen(list) ==
    IF list = <<>> THEN <<>>
    ELSE InsertByLen(SortedByLen(SubSeq(list, 1, Len(list) - 1)), list[Len(list)])

RECURSIVE RemoveChars(_, _)
RemoveChars(s, drop) ==
    IF s = "" THEN ""
    ELSE (IF Head(s) \in drop THEN "" ELSE Head(s)) \o RemoveChars(Tail(s), drop)

RECURSIVE CollapseBlanks(_)
\* re.sub(r' ( )+', ' ', s): a run of two or more blanks becomes one blank
CollapseBlanks(s) ==
    IF Len(s) < 2 THEN s
    ELSE IF Head(s) = " " /\ CharAt(s, 1) = " " THEN CollapseBlanks(Tail(s))
    ELSE Head(s) \o CollapseBlanks(Tail(s))

\* condensed_value
Condense(value) == CollapseBlanks(RemoveChars(Strip(value), {".", ",", "-"}))

\* office_pair.name.replace('_', ' ')
office_name(cat) == MapChars([c \in AsciiChars |-> IF c = "_" THEN " " ELSE c], cat.name)

\* to_search.startswith('EXACT')
alt_exact_match(cat) == StartsWith(office_name(cat), "EXACT")

\* all_matches[value] = match on a dict kept as the list of its items in
\* insertion order
Put(dict, key, match) ==
    IF \E k \in 1..Len(dict) : dict[k].key = key
    THEN [k \in 1..Len(dict) |->
             IF dict[k].key = key THEN [key |-> key, match |-> match] ELSE dict[k]]
    ELSE Append(dict, [key |-> key, match |-> match])

\* process.extract(condensed_value, [entry]) behind the guard on '""';
\* NoScore when the guard leaves match at None
ProcessExtract(condensed_value, entry) ==
    IF condensed_value = "\"\"" \/ entry = "\"\"" THEN NoScore
    ELSE ExtractScore(condensed_value, entry)

ExploreScored(matches, value, condensed_value, entry, alt, score) ==
    IF ~alt /\ score # NoScore /\ score >= sensitivity
    THEN Put(matches, value, [entry |-> entry, score |-> score])
    ELSE IF ~alt /\ Contains(entry, condensed_value)
    THEN Put(matches, value, [entry |-> entry, score |-> NoScore])
    ELSE IF alt /\ condensed_value = entry
    THEN Put(matches, value, [entry |-> entry, score |-> NoScore])
    ELSE matches

ExploreCondensed(matches, value, condensed_value, entry, alt) ==
    ExploreScored(matches, value, condensed_value, entry, alt,
                  ProcessExtract(condensed_value, entry))

\* the body of the inner loop of _explore for one search_like_entry
ExploreEntry(matches, value, entry, alt) ==
    ExploreCondensed(matches, value, Condense(value), entry, alt)

\* entries = search_like if search_like is not None else values_to_search[i+1:]
\* (i is the 1-based position of the value; WithinColumn stands for None)
Entries(values_to_search, i, search_like, withinColumn) ==
    IF withinColumn THEN SubSeq(values_to_search, i + 1, Len(values_to_search))
    ELSE search_like

RECURSIVE ExploreFrom(_, _, _, _, _, _, _)
ExploreIn(matches, values_to_search, i, j, search_like, withinColumn, alt, entries) ==
    IF j > Len(entries)
    THEN ExploreFrom(matches, values_to_search, i + 1, 1, search_like, withinColumn, alt)
    ELSE ExploreFrom(ExploreEntry(matches, values_to_search[i], entries[j], alt),
                     values_to_search, i, j + 1, search_like, withinColumn, alt)

\* _explore from the inner-loop position (i, j) to its return
ExploreFrom(matches, values_to_search, i, j, search_like, withinColumn, alt) ==
    IF i > Len(values_to_search) THEN matches
    ELSE ExploreIn(matches, values_to_search, i, j, search_like, withinColumn, alt,
                   Entries(values_to_search, i, search_like, withinColumn))

\* Field._explore
explore(values, search_like, withinColumn, alt) ==
    ExploreFrom(<<>>, SortedByLen(values), 1, 1, search_like, withinColumn, alt)

\* the lines check_similarities appends for one explored dict:
\* f'    {value} ||| [[{closest_matches[0][0]}]]'
SimilaritySection(title, explored) ==
    [title |-> title,
     lines |-> [k \in 1..Len(explored) |-> <<explored[k].key, explored[k].match.entry>>]]

\* Field._list_has_empty
list_has_empty(values, similarities) ==
    LET exact == {c \in 1..Len(similarities) : similarities[c].name = "EXACT_EMPTY"}
    IN  \E c \in exact : Range(values) \cap similarities[c].value # {}

\* the first lines of output: the heading and the warning about empties
OutputHeader(values, similarities) ==
    << [title |-> "SIMILARITY CHECK",
        lines |-> IF list_has_empty(values, similarities)
                  THEN << <<"WARNING", "Empty values detected">> >> ELSE <<>>] >>

RECURSIVE SplitOnBlank(_)
SplitOnBlankAt(s, n) == <<Slice(s, 0, n)>> \o SplitOnBlank(Slice(s, n + 1, Len(s)))

\* s.split(' '): the pieces between single blanks, empty pieces included
SplitOnBlank(s) ==
    IF \E i \in 0..(Len(s) - 1) : CharAt(s, i) = " "
    THEN SplitOnBlankAt(s, FirstBlank(s))
    ELSE <<s>>

\* the words that occur more than once in the list words
RepeatedWords(words) ==
    {w \in Range(words) : Cardinality({n \in 1..Len(words) : words[n] = w}) > 1}

\* duplicates = {w for w in value.split(' ') if value.split(' ').count(w) > 1}
DuplicatesOf(value) == RepeatedWords(SplitOnBlank(value))

DuplicateLinesOf(values, keep) ==
    [k \in 1..Len(keep) |->
        <<values[keep[k]], Join(SortedStrings(DuplicatesOf(values[keep[k]])))>>]

\* _perform_duplicate: the values in which a word occurs more than once, each
\* with its repeated words (listed here in sorted order)
DuplicateWordLines(values) ==
    DuplicateLinesOf(values,
        SelectIdx([n \in 1..Len(values) |-> DuplicatesOf(values[n]) # {}], 1, Len(values)))

\* the output list of check_similarities from a given pass on, for a run
\* that is not interrupted: the category passes, the duplicate words and the
\* within-column pass
RECURSIVE CategorySections(_, _, _, _)
CategorySections(values, similarities, orders, c) ==
    IF c > Len(similarities) THEN <<>>
    ELSE <<SimilaritySection(office_name(similarities[c]),
                             explore(values, orders[c], FALSE,
                                     alt_exact_match(similarities[c])))>>
         \o CategorySections(values, similarities, orders, c + 1)

\* Field.check_similarities: everything it writes to the field's file
check_similarities(values, similarities, orders) ==
    OutputHeader(values, similarities)
    \o CategorySections(values, similarities, orders, 1)
    \o << [title |-> "DUPLICATE WORDS", lines |-> DuplicateWordLines(values)] >>
    \o << SimilaritySection("SIMILAR VALUES", explore(values, <<>>, TRUE, FALSE)) >>

Similarities == OfficeSimilarities

WithinColumnPass == passIdx > Len(Similarities)

values_to_search == SortedByLen(filtered_values)

\* the entries the current value is compared with
CurrentEntries ==
    Entries(values_to_search, exI,
            IF WithinColumnPass THEN <<>> ELSE aliasOrder[passIdx], WithinColumnPass)

CurrentAlt == ~WithinColumnPass /\ alt_exact_match(Similarities[passIdx])

\* check_all has written the heading of the field's file and obtained the
\* values; check_similarities starts its first category
InitMatch ==
    /\ IdleDup /\ IdleQa /\ IdleOffice /\ IdleStats
    /\ filtered_values \in ObtainedValues(MaxValues)
    /\ aliasOrder \in TaxonomyOrders(Similarities)
    /\ passIdx = 1
    /\ exI = 1
    /\ exJ = 1
    /\ all_matches = <<>>
    /\ output = OutputHeader(filtered_values, Similarities)
    /\ simFile = <<>>
    /\ simSummary = {}
    /\ matchPc = "explore"
    /\ abortedAt = "none"

\* one iteration of the inner loop of _explore
ExploreStep ==
    /\ matchPc = "explore"
    /\ exI <= Len(values_to_search)
    /\ exJ <= Len(CurrentEntries)
    /\ all_matches' = ExploreEntry(all_matches, values_to_search[exI],
                                   CurrentEntries[exJ], CurrentAlt)
    /\ exJ' = exJ + 1
    /\ UNCHANGED <<filtered_values, aliasOrder, passIdx, exI, output, simFile,
                   simSummary, matchPc, abortedAt, dupVars, qaVars, officeVars, statsVars>>

\* the entries of the current value are exhausted: the outer loop moves on
ExploreNextValue ==
    /\ matchPc = "explore"
    /\ exI <= Len(values_to_search)
    /\ exJ > Len(CurrentEntries)
    /\ exI' = exI + 1
    /\ exJ' = 1
    /\ UNCHANGED <<filtered_values, aliasOrder, passIdx, all_matches, output, simFile,
                   simSummary, matchPc, abortedAt, dupVars, qaVars, officeVars, statsVars>>

\* _explore returns all_matches for a category; _perform appends its section
\* and, after the last category, writes the summary line if any had a match
ExploreReturnCategory ==
    /\ matchPc = "explore"
    /\ ~WithinColumnPass
    /\ exI > Len(values_to_search)
    /\ output' = Append(output, SimilaritySection(office_name(Similarities[passIdx]),
                                                  all_matches))
    /\ passIdx' = passIdx + 1
    /\ exI' = 1
    /\ exJ' = 1
    /\ all_matches' = <<>>
    /\ IF passIdx = Len(Similarities)
       THEN /\ matchPc' = "duplicates"
            /\ simSummary' =
                   IF \E k \in 1..Len(output') :
                          /\ output'[k].title # "SIMILARITY CHECK"
                          /\ output'[k].lines # <<>>
                   THEN simSummary \cup {"SIMILARITY CHECK"} ELSE simSummary
       ELSE UNCHANGED <<matchPc, simSummary>>
    /\ UNCHANGED <<filtered_values, aliasOrder, simFile, abortedAt, dupVars, qaVars, officeVars, statsVars>>

\* _perform_duplicate
DuplicateWords ==
    /\ matchPc = "duplicates"
    /\ output' = Append(output, [title |-> "DUPLICATE WORDS",
                                 lines |-> DuplicateWordLines(filtered_values)])
    /\ simSummary' = IF DuplicateWordLines(filtered_values) # <<>>
                     THEN simSummary \cup {"DUPLICATES CHECK"} ELSE simSummary
    /\ matchPc' = "explore"
    /\ UNCHANGED <<filtered_values, aliasOrder, passIdx, exI, exJ, all_matches, simFile,
                   abortedAt, dupVars, qaVars, officeVars, statsVars>>

\* _explore returns for the within-column pass; its section is appended
ExploreReturnWithinColumn ==
    /\ matchPc = "explore"
    /\ WithinColumnPass
    /\ exI > Len(values_to_search)
    /\ output' = Append(output, SimilaritySection("SIMILAR VALUES", all_matches))
    /\ matchPc' = "write"
    /\ UNCHANGED <<filtered_values, aliasOrder, passIdx, exI, exJ, all_matches, simFile,
                   simSummary, abortedAt, dupVars, qaVars, officeVars, statsVars>>

\* with open(filename, 'a+') as f: f.writelines(output)
WriteSimilarities ==
    /\ matchPc = "write"
    /\ simFile' = output
    /\ matchPc' = "written"
    /\ UNCHANGED <<filtered_values, aliasOrder, passIdx, exI, exJ, all_matches, output,
                   simSummary, abortedAt, dupVars, qaVars, officeVars, statsVars>>

\* a KeyboardInterrupt while check_similarities runs: nothing below check_all
\* catches it, so _explore and check_similarities are unwound and check_all
\* prints 'Aborted similarity query.'; all_matches and output keep the value
\* they had when the exception was raised
InterruptSimilarities ==
    /\ matchPc \in {"explore", "duplicates", "write"}
    /\ abortedAt' = matchPc
    /\ matchPc' = "aborted"
    /\ UNCHANGED <<filtered_values, aliasOrder, passIdx, exI, exJ, all_matches, output,
                   simFile, simSummary, dupVars, qaVars, officeVars, statsVars>>

NextMatch ==
    \/ ExploreStep
    \/ ExploreNextValue
    \/ ExploreReturnCategory
    \/ DuplicateWords
    \/ ExploreReturnWithinColumn
    \/ WriteSimilarities
    \/ InterruptSimilarities

SpecMatch == InitMatch /\ [][NextMatch]_vars

\* an uninterrupted run writes what check_similarities computes for the
\* enumeration orders it ran with
WrittenIsComputed ==
    matchPc = "written" =>
        simFile = check_similarities(filtered_values, Similarities, aliasOrder)

\* ------------------------------------------------------------------------
\* Claims about the taxonomy matcher
\* ------------------------------------------------------------------------

\* the line check_similarities writes for an item of all_matches is in the
\* field's file
InSimFile(item) ==
    \E s \in 1..Len(simFile) : <<item.key, item.match.entry>> \in Range(simFile[s].lines)

\* C4: when a cancellation arrives while _explore is scanning, every match
\* found before it (the items all_matches held when the KeyboardInterrupt was
\* raised) ends up in the field's written result.
C4_MatchesSurviveCancellation ==
    (matchPc = "aborted" /\ abortedAt = "explore") =>
        \A k \in 1..Len(all_matches) : InSimFile(all_matches[k])

\* C8: what the matcher writes for a list of values does not depend on the
\* order in which the alias sets are enumerated: every enumeration order
\* yields the sections this run wrote.
C8_ResultIndependentOfAliasOrder ==
    matchPc = "written" =>
        \A ord \in TaxonomyOrders(Similarities) :
            check_similarities(filtered_values, Similarities, ord) = simFile

\* some alias of the category reaches the sensitivity threshold for the value
SomeAliasFuzzy(value, cat) ==
    \E alias \in cat.value :
        /\ ProcessExtract(Condense(value), alias) # NoScore
        /\ ProcessExtract(Condense(value), alias) >= sensitivity

\* C10: fuzzy before substring, first success wins: once a value has been
\* compared with all aliases of a category (not an EXACT one), if some alias
\* reaches the threshold by fuzzy score then the match recorded for the value
\* carries a numeric score.
C10_FuzzyWinsOverSubstring ==
    (matchPc = "explore" /\ ~WithinColumnPass /\ ~CurrentAlt) =>
        \A k \in 1..(exI - 1) :
            SomeAliasFuzzy(values_to_search[k], Similarities[passIdx]) =>
                \E m \in 1..Len(all_matches) :
                    /\ all_matches[m].key = values_to_search[k]
                    /\ all_matches[m].match.score # NoScore
\* the score process.extract gives the alias for the value, NoScore when the
\* guard on '""' keeps the pair from being scored
FuzzyScore(value, alias) == ProcessExtract(Condense(value), alias)

ReachesSensitivity(value, alias) ==
    FuzzyScore(value, alias) # NoScore /\ FuzzyScore(value, alias) >= sensitivity

\* the aliases of the category that reach the threshold for the value
FuzzyAliases(value, cat) == {alias \in cat.value : ReachesSensitivity(value, alias)}

\* the matches all_matches records for the value (at most one)
RecordedFor(value) ==
    {all_matches[m].match : m \in {n \in 1..Len(all_matches) : all_matches[n].key = value}}

\* a category pass (not an EXACT one) is under way; the values before exI
\* have been compared with every alias of the category
InCategoryScan == matchPc = "explore" /\ ~WithinColumnPass /\ ~CurrentAlt

\* C11: when several aliases of a category reach the sensitivity threshold
\* for a value, the alias recorded for the value is one whose score is the
\* highest among the aliases of the category.
C11_RecordedAliasHasHighestScore ==
    InCategoryScan =>
        \A k \in 1..(exI - 1) :
            Cardinality(FuzzyAliases(values_to_search[k], Similarities[passIdx])) >= 2 =>
                \E rec \in RecordedFor(values_to_search[k]) :
                    \A alias \in Similarities[passIdx].value :
                        FuzzyScore(values_to_search[k], alias)
                            <= FuzzyScore(values_to_search[k], rec.entry)

\* the alias qualifies for the value: by fuzzy score, or as a substring
Qualifies(value, alias) ==
    ReachesSensitivity(value, alias) \/ Contains(alias, Condense(value))

\* the score a qualifying alias is recorded with
TierScore(value, alias) ==
    IF ReachesSensitivity(value, alias) THEN FuzzyScore(value, alias) ELSE NoScore

\* the positions of the enumeration order whose alias qualifies for the value
QualifyingAt(value, order) == {j \in 1..Len(order) : Qualifies(value, order[j])}

FirstOf(positions) == CHOOSE j \in positions : \A i \in positions : j <= i

EqualScores(value, order, positions) ==
    \A i, j \in positions : TierScore(value, order[i]) = TierScore(value, order[j])

\* C12: when more than one candidate qualifies for a value with equal score,
\* the match recorded is the first qualifying candidate in enumeration order;
\* a candidate visited later does not replace it.
C12_FirstQualifyingWins ==
    InCategoryScan =>
        \A k \in 1..(exI - 1) :
            ( /\ Cardinality(QualifyingAt(values_to_search[k], aliasOrder[passIdx])) >= 2
              /\ EqualScores(values_to_search[k], aliasOrder[passIdx],
                             QualifyingAt(values_to_search[k], aliasOrder[passIdx])) )
            => \E rec \in RecordedFor(values_to_search[k]) :
                   rec.entry = aliasOrder[passIdx][
                       FirstOf(QualifyingAt(values_to_search[k], aliasOrder[passIdx]))]

\* an alias is contained in the normalized value, or the normalized value in
\* an alias
SubstringEitherWay(value, cat) ==
    \E alias \in cat.value :
        Contains(alias, Condense(value)) \/ Contains(Condense(value), alias)

\* C13: a value no alias matches at the fuzzy tier is matched at the
\* substring tier, without a score, whenever an alias is contained in the
\* normalized value or the normalized value in an alias; otherwise it stays
\* unmatched.
C13_SubstringTierEitherDirection ==
    InCategoryScan =>
        \A k \in 1..(exI - 1) :
            FuzzyAliases(values_to_search[k], Similarities[passIdx]) = {} =>
                IF SubstringEitherWay(values_to_search[k], Similarities[passIdx])
                THEN \E rec \in RecordedFor(values_to_search[k]) : rec.score = NoScore
                ELSE RecordedFor(values_to_search[k]) = {}

\* the within-column pass has returned: all_matches is its result
WithinColumnDone == matchPc \in {"write", "written"}

\* two values of the column are similar at the sensitivity threshold
SimilarValues(a, b) == ReachesSensitivity(a, b) /\ ReachesSensitivity(b, a)

\* b is in the match list of a
InMatchList(a, b) == \E rec \in RecordedFor(a) : rec.entry = b

\* C14: in within-column mode the near-duplicate relation is mutual: two
\* distinct values that are similar at the threshold are each in the other's
\* match list.
C14_WithinColumnMutual ==
    WithinColumnDone =>
        \A m, n \in 1..Len(filtered_values) :
            (m # n /\ SimilarValues(filtered_values[m], filtered_values[n])) =>
                /\ InMatchList(filtered_values[m], filtered_values[n])
                /\ InMatchList(filtered_values[n], filtered_values[m])

\* the values of a reported pair
PairOf(item) == {item.key, item.match.entry}

\* C15: in one within-column pass every value has at most one partner: no
\* value occurs in more than one reported pair.
C15_AtMostOnePartner ==
    WithinColumnDone =>
        \A m, n \in 1..Len(all_matches) :
            m # n => PairOf(all_matches[m]) \cap PairOf(all_matches[n]) = {}

\* C16: the empty sentinel EMPTY_RECORD is never submitted to fuzzy scoring,
\* neither as the value being classified nor as the candidate it is compared
\* with.
C16_SentinelNeverScored ==
    [][ExploreStep =>
          (EMPTY_RECORD \in {Condense(values_to_search[exI]), CurrentEntries[exJ]} =>
               FuzzyScore(values_to_search[exI], CurrentEntries[exJ]) = NoScore)]_vars

\* ------------------------------------------------------------------------
\* The office mapping suggestions: qa_core/office_checks.py
\* ------------------------------------------------------------------------

MaxOfficeRows == 2

DEFAULT_CANONICAL ==
    << "US PRESIDENT", "GOVERNOR", "US SENATE", "US HOUSE", "STATE SENATE",
       "STATE HOUSE", "ATTORNEY GENERAL", "SECRETARY OF STATE", "TREASURER" >>

\* top_unmatched = sorted(...)[:10]
TopUnmatched == 10

\* df[norm == office_name].head(5)
SampleRows == 5

\* token overlap is accepted from 0.4, difflib matches from 0.7 (hundredths)
OverlapCutoff == 40

CloseCutoff == 70

STOPWORDS == {"THE", "FOR", "OF", "AND", "TO", "A", "AN"}

\* the cells the office column is drawn from
OfficeCells ==
    {"GOVERNOR", " us senate", "", "US", "STATE", "HOUSE REP", "GOVENOR", "MAYOR",
     "THE HOUSE"}

OfficeFrames(maxRows) ==
    {[present |-> FALSE, cells |-> <<>>]} \cup
    {[present |-> TRUE, cells |-> cells] : cells \in SeqsUpTo(OfficeCells, maxRows)}

Reverse(seq) == [k \in 1..Len(seq) |-> seq[Len(seq) + 1 - k]]

Rotations(seq) ==
    {[k \in 1..Len(seq) |-> seq[((k + r - 1) % Len(seq)) + 1]] : r \in 0..(Len(seq) - 1)}

\* orders in which iterating canonical_set may enumerate it: the rotations
\* of the declaration order and of its reverse
CanonicalOrders == Rotations(DEFAULT_CANONICAL) \cup Rotations(Reverse(DEFAULT_CANONICAL))

\* _normalize_office
normalize_office(s) == Upper(Strip(s))

\* norm = offices.apply(_normalize_office), offices = the stripped cells
Norm(frame) == [k \in 1..Len(frame.cells) |-> normalize_office(Strip(frame.cells[k]))]

\* unmatched = [o for o in observed if o and o not in canonical_set]
Unmatched(frame) ==
    SelectSeq(UniqueInOrder(Norm(frame)),
              LAMBDA o : o # "" /\ o \notin Range(DEFAULT_CANONICAL))

\* counts.get(o, 0)
CountOf(frame, o) == Cardinality({k \in 1..Len(frame.cells) : Norm(frame)[k] = o})

\* unmatched_counts, as the items of the dict in insertion order
UnmatchedCounts(frame) ==
    [k \in 1..Len(Unmatched(frame)) |->
        <<Unmatched(frame)[k], CountOf(frame, Unmatched(frame)[k])>>]

RECURSIVE InsertByCount(_, _)
InsertByCount(sorted, item) ==
    IF sorted = <<>> THEN <<item>>
    ELSE IF item[2] > Head(sorted)[2] THEN <<item>> \o sorted
    ELSE <<Head(sorted)>> \o InsertByCount(Tail(sorted), item)

RECURSIVE SortedByCount(_)
\* sorted(items, key=lambda kv: -kv[1]): stable
SortedByCount(items) ==
    IF items = <<>> THEN <<>>
    ELSE InsertByCount(SortedByCount(SubSeq(items, 1, Len(items) - 1)), items[Len(items)])

top_unmatched(frame) ==
    LET all == SortedByCount(UnmatchedCounts(frame))
    IN  SubSeq(all, 1, IF Len(all) < TopUnmatched THEN Len(all) ELSE TopUnmatched)

RECURSIVE SumCounts(_)
SumCounts(items) ==
    IF items = <<>> THEN 0 ELSE Head(items)[2] + SumCounts(Tail(items))

RECURSIVE IssueRows(_, _)
\* the 0-based index labels of the sample rows, top value by top value
IssueRows(frame, top) ==
    IF top = <<>> THEN <<>>
    ELSE LET hits == SelectIdx([k \in 1..Len(frame.cells) |-> Norm(frame)[k] = Head(top)[1]],
                               1, Len(frame.cells))
             head == SubSeq(hits, 1, IF Len(hits) < SampleRows THEN Len(hits) ELSE SampleRows)
         IN  [k \in 1..Len(head) |-> head[k] - 1] \o IssueRows(frame, Tail(top))

\* _tokens
Tokens(s) == SelectSeq(Split(s), LAMBDA p : p \notin STOPWORDS)

NoSuggestion == [suggested |-> "", score |-> 0]

RECURSIVE QuickHeuristic(_, _, _)
\* the first loop over canonical_set: the first c, in enumeration order, that
\* equals o (1.0), is a prefix of o or has o as a prefix (0.95), or contains
\* o or is contained in it (0.9); scores in hundredths
QuickHeuristic(o, order, k) ==
    IF k > Len(order) THEN NoSuggestion
    ELSE LET c == order[k]
         IN  IF o = c THEN [suggested |-> c, score |-> 100]
             ELSE IF StartsWith(o, c) \/ StartsWith(c, o) THEN [suggested |-> c, score |-> 95]
             ELSE IF Contains(c, o) \/ Contains(o, c) THEN [suggested |-> c, score |-> 90]
             ELSE QuickHeuristic(o, order, k + 1)

\* the Jaccard index in the place of the overlap score
OverlapJaccard(o_toks, c_toks) ==
    <<Cardinality(o_toks \cap c_toks), Cardinality(o_toks \cup c_toks)>>

\* overlap_score = 2.0 * len(inter) / (len(o_toks) + len(c_toks)), a fraction
OverlapScore(o_toks, c_toks) ==
    <<2 * Cardinality(o_toks \cap c_toks), Cardinality(o_toks) + Cardinality(c_toks)>>

RECURSIVE BestToken(_, _, _, _)
\* the second loop: [best_tok, best_overlap] after the canonicals from k on;
\* a canonical replaces the best one only with a strictly larger overlap
BestToken(o_toks, order, k, best) ==
    IF k > Len(order) THEN best
    ELSE LET c_toks == Range(Tokens(order[k]))
             score == OverlapScore(o_toks, c_toks)
         IN  IF c_toks # {} /\ ~FracLeq(score, best.overlap)
             THEN BestToken(o_toks, order, k + 1, [tok |-> order[k], overlap |-> score])
             ELSE BestToken(o_toks, order, k + 1, best)

\* the token heuristic: round(0.8 + best_overlap * 0.2, 2) in hundredths
TokenHeuristic(o, order) ==
    LET o_toks == Range(Tokens(o))
        best == BestToken(o_toks, order, 1, [tok |-> "", overlap |-> <<0, 1>>])
    IN  IF o_toks # {} /\ best.tok # ""
           /\ FracLeq(<<OverlapCutoff, 100>>, best.overlap)
        THEN [suggested |-> best.tok,
              score |-> RoundDiv(80 * best.overlap[2] + 20 * best.overlap[1],
                                 best.overlap[2])]
        ELSE NoSuggestion

\* difflib.get_close_matches(o, list(canonical_set), n=1, cutoff=0.7): the
\* possibility x with the largest (SequenceMatcher(None, x, o).ratio(), x)
\* among those whose ratio reaches the cutoff
CloseMatches(o, order) ==
    LET result == {x \in Range(order) : FracLeq(<<CloseCutoff, 100>>, SeqRatio(x, o))}
        better(x, y) ==
            \/ ~FracLeq(SeqRatio(x, o), SeqRatio(y, o))
            \/ FracLeq(SeqRatio(y, o), SeqRatio(x, o)) /\ FracLeq(SeqRatio(x, o), SeqRatio(y, o))
               /\ StrLess(y, x)
    IN  IF result = {} THEN <<>>
        ELSE <<CHOOSE x \in result : \A y \in result \ {x} : better(x, y)>>

\* the fallback without a cutoff: the first canonical name is suggested
DifflibAnyMatch(o, order) ==
    [suggested |-> order[1],
     score |-> RoundDiv(100 * SeqRatio(o, order[1])[1], SeqRatio(o, order[1])[2])]

\* the difflib fallback: round(SequenceMatcher(None, o, close[0]).ratio(), 2)
DifflibHeuristic(o, order) ==
    LET close == CloseMatches(o, order)
    IN  IF close = <<>> THEN NoSuggestion
        ELSE [suggested |-> close[1],
              score |-> RoundDiv(100 * SeqRatio(o, close[1])[1], SeqRatio(o, close[1])[2])]

\* best for one unmatched office: the heuristics in order, first success wins
Suggest(o, order) ==
    IF QuickHeuristic(o, order, 1) # NoSuggestion THEN QuickHeuristic(o, order, 1)
    ELSE IF TokenHeuristic(o, order) # NoSuggestion THEN TokenHeuristic(o, order)
    ELSE DifflibHeuristic(o, order)

RECURSIVE SuggestionsFrom(_, _, _, _)
\* the suggestions dict after the offices of unmatched from position k on
SuggestionsFrom(sugg, list, k, order) ==
    IF k > Len(list) THEN sugg
    ELSE SuggestionsFrom(IF Suggest(list[k], order) # NoSuggestion
                         THEN Put(sugg, list[k], Suggest(list[k], order)) ELSE sugg,
                         list, k + 1, order)

EmptyResult ==
    [issues |-> 0, issue_values |-> <<>>, issue_rows |-> <<>>,
     mapping_suggestions |-> <<>>, unmatched_counts |-> <<>>]

InitOffice ==
    /\ IdleDup /\ IdleQa /\ IdleMatch /\ IdleStats
    /\ officeColumn \in OfficeFrames(MaxOfficeRows)
    /\ canonical_order \in CanonicalOrders
    /\ unmatched = <<>>
    /\ sugIdx = 0
    /\ suggestions = <<>>
    /\ officeRes = EmptyResult
    /\ officePc = "loaded"

\* lines 56-58 and 70-71: no office column, or nothing unmatched: res is
\* returned as initialised
ReturnNoIssues ==
    /\ officePc = "loaded"
    /\ ~officeColumn.present \/ Unmatched(officeColumn) = <<>>
    /\ officePc' = "returned"
    /\ UNCHANGED <<officeColumn, canonical_order, unmatched, sugIdx, suggestions,
                   officeRes, dupVars, qaVars, matchVars, statsVars>>

\* lines 60-89: the unmatched offices, their counts and the sample rows
CollectUnmatched ==
    /\ officePc = "loaded"
    /\ officeColumn.present /\ Unmatched(officeColumn) # <<>>
    /\ unmatched' = Unmatched(officeColumn)
    /\ officeRes' = [officeRes EXCEPT
           !.issues = SumCounts(UnmatchedCounts(officeColumn)),
           !.issue_values = top_unmatched(officeColumn),
           !.issue_rows = IssueRows(officeColumn, top_unmatched(officeColumn))]
    /\ sugIdx' = 1
    /\ officePc' = "suggest"
    /\ UNCHANGED <<officeColumn, canonical_order, suggestions, dupVars, qaVars, matchVars, statsVars>>

\* lines 104-149: one pass of the loop over unmatched
SuggestMapping ==
    /\ officePc = "suggest"
    /\ sugIdx <= Len(unmatched)
    /\ suggestions' = SuggestionsFrom(suggestions, <<unmatched[sugIdx]>>, 1, canonical_order)
    /\ sugIdx' = sugIdx + 1
    /\ UNCHANGED <<officeColumn, canonical_order, unmatched, officeRes, officePc,
                   dupVars, qaVars, matchVars, statsVars>>

\* lines 150-154
ReturnResult ==
    /\ officePc = "suggest"
    /\ sugIdx > Len(unmatched)
    /\ officeRes' = [officeRes EXCEPT
           !.mapping_suggestions = suggestions,
           !.unmatched_counts = UnmatchedCounts(officeColumn)]
    /\ officePc' = "returned"
    /\ UNCHANGED <<officeColumn, canonical_order, unmatched, sugIdx, suggestions,
                   dupVars, qaVars, matchVars, statsVars>>

NextOffice == ReturnNoIssues \/ CollectUnmatched \/ SuggestMapping \/ ReturnResult

SpecOffice == InitOffice /\ [][NextOffice]_vars

\* ------------------------------------------------------------------------
\* Numeric and outlier passes of the runner: run_numerical_checks and
\* vote_distribution_check (qa_core/stats_utils.py)
\* ------------------------------------------------------------------------

\* bound on the records of the datasets that hold a partition of the default
\* minimum size
MaxStatRows == 11

\* bound on the records of the other datasets
MaxSmallRows == 6

\* bound on the runs that follow the first with a raised configuration
MaxReruns == 1

\* config.MIN_EXPECTED_ROWS
MIN_EXPECTED_ROWS == 10

\* a number n/d with d > 0
Frac(n, d) == [num |-> n, den |-> d]

\* config.OUTLIER_THRESHOLD = 3.5
OUTLIER_THRESHOLD == Frac(7, 2)

\* the configurations of a first run: config.py as it stands, and config.py
\* with a small minimum partition size
FirstConfigs ==
    [MIN_EXPECTED_ROWS : {2, MIN_EXPECTED_ROWS}, OUTLIER_THRESHOLD : {OUTLIER_THRESHOLD}]

\* the thresholds a later run may raise OUTLIER_THRESHOLD to
RaisedThresholds == {Frac(13, 2)}

FracLess(a, b) == a.num * b.den < b.num * a.den

\* the cells of the votes column (load_data reads every column as str) in
\* the order the modelled datasets list them
VoteStrings == <<"-2", "1", "2", "abc">>

StatColumns == {"state", "precinct", "votes"}

\* a float of a numeric Series: a number or NaN
Num(n) == [nan |-> FALSE, num |-> n]
NaN == [nan |-> TRUE, num |-> 0]

ParsesAsNumber(s) == s \in {"-2", "1", "2"}

NumberOf(s) == CASE s = "-2" -> -2 [] s = "1" -> 1 [] s = "2" -> 2

\* pd.to_numeric(series, errors="raise"): an unparseable cell raises ValueError
ToNumericRaise(cells) ==
    [raised |-> \E i \in 1..Len(cells) : ~ParsesAsNumber(cells[i]),
     values |-> [i \in 1..Len(cells) |->
                    IF ParsesAsNumber(cells[i]) THEN Num(NumberOf(cells[i])) ELSE NaN]]

\* pd.to_numeric(series, errors="coerce"): an unparseable cell becomes NaN
ToNumericCoerce(cells) ==
    [raised |-> FALSE,
     values |-> [i \in 1..Len(cells) |->
                    IF ParsesAsNumber(cells[i]) THEN Num(NumberOf(cells[i])) ELSE NaN]]

\* ---- the datasets

StatRow(st, v) == [state |-> st, precinct |-> "P", votes |-> v]

\* the records of one partition: k records of state st whose votes are drawn
\* in the order of VoteStrings
RECURSIVE Partitions(_, _, _)
Partitions(st, k, from) ==
    IF k = 0 THEN {<<>>}
    ELSE UNION {{<<StatRow(st, VoteStrings[i])>> \o rest : rest \in Partitions(st, k - 1, i)} :
                   i \in from..Len(VoteStrings)}

\* a file with a partition S of nS records followed by a partition T of nT
TwoPartitions(nS, nT) ==
    {a \o b : a \in Partitions("S", nS, 1), b \in Partitions("T", nT, 1)}

\* the files of at most maxRows records whose partition S has at least minS
FilesOf(minS, maxRows) ==
    UNION {UNION {TwoPartitions(nS, k - nS) : nS \in minS..k} : k \in minS..maxRows}

\* the DataFrame of a file from which the columns miss are absent
Without(rows, miss) ==
    [cols |-> StatColumns \ miss,
     rows |-> [i \in 1..Len(rows) |-> [c \in StatColumns \ miss |-> rows[i][c]]]]

StatDatasets ==
    {Without(rows, {}) :
        rows \in FilesOf(0, MaxSmallRows) \cup FilesOf(MIN_EXPECTED_ROWS, MaxStatRows)}
    \cup {Without(rows, miss) :
            rows \in FilesOf(0, 1), miss \in {{"precinct"}, {"votes"}}}

\* ---- run_numerical_checks

CountWhere(values, Test(_)) == Cardinality({i \in 1..Len(values) : Test(values[i])})

Numbers(values) == {values[i].num : i \in {j \in 1..Len(values) : ~values[j].nan}}

\* votes.max(skipna=True), votes.min(skipna=True): NaN when no number is left
MaxSkipNa(values) ==
    IF Numbers(values) = {} THEN NaN
    ELSE Num(CHOOSE m \in Numbers(values) : \A n \in Numbers(values) : n <= m)

MinSkipNa(values) ==
    IF Numbers(values) = {} THEN NaN
    ELSE Num(CHOOSE m \in Numbers(values) : \A n \in Numbers(values) : m <= n)

Column(d, c) == [i \in 1..Len(d.rows) |-> d.rows[i][c]]

NumericalResults(votes) ==
    [aborted |-> FALSE,
     error |-> "",
     non_numeric_votes |-> CountWhere(votes, LAMBDA v : v.nan),
     negative_votes |-> CountWhere(votes, LAMBDA v : ~v.nan /\ v.num < 0),
     max_votes |-> MaxSkipNa(votes),
     min_votes |-> MinSkipNa(votes)]

\* the ValueError of to_numeric leaves the pass
Aborted == [aborted |-> TRUE, error |-> "ValueError"]

NumericalOf(converted) ==
    IF converted.raised THEN Aborted ELSE NumericalResults(converted.values)

run_numerical_checks(d) ==
    IF "votes" \notin d.cols
    THEN [aborted |-> FALSE, error |-> "votes column missing"]
    ELSE NumericalOf(ToNumericCoerce(Column(d, "votes")))

\* ---- vote_distribution_check

\* the keys of df.groupby("state"), in sorted order
StateKeys(d) ==
    SelectSeq(<<"S", "T">>, LAMBDA st : \E i \in 1..Len(d.rows) : d.rows[i]["state"] = st)

\* the positions of the records of group st, in the order of the file
GroupRows(d, st) == SelectIdx([i \in 1..Len(d.rows) |-> d.rows[i]["state"] = st], 1, Len(d.rows))

\* the positions, among pos, of the values dropna() keeps
KeptRows(pos, values) == SelectSeq(pos, LAMBDA i : ~values[i].nan)

RECURSIVE InsertInt(_, _)
InsertInt(sorted, n) ==
    IF sorted = <<>> THEN <<n>>
    ELSE IF n >= sorted[Len(sorted)] THEN Append(sorted, n)
    ELSE Append(InsertInt(SubSeq(sorted, 1, Len(sorted) - 1), n), sorted[Len(sorted)])

RECURSIVE SortInts(_)
SortInts(seq) ==
    IF seq = <<>> THEN <<>>
    ELSE InsertInt(SortInts(SubSeq(seq, 1, Len(seq) - 1)), seq[Len(seq)])

\* twice the middle of a sorted non-empty list: np.median averages the two
\* middle values of a list of even length
TwiceMiddle(sorted) ==
    IF Len(sorted) % 2 = 1 THEN 2 * sorted[(Len(sorted) + 1) \div 2]
    ELSE sorted[Len(sorted) \div 2] + sorted[Len(sorted) \div 2 + 1]

\* 2 * np.median(values)
TwiceMedian(values) == TwiceMiddle(SortInts(values))

Abs(n) == IF n < 0 THEN -n ELSE n

\* 2 * (votes - median), per value
TwiceDeviation(values, median2) == [k \in 1..Len(values) |-> 2 * values[k] - median2]

\* 4 * np.median(np.abs(votes - median))
FourTimesMad(values, median2) ==
    TwiceMedian([k \in 1..Len(values) |-> Abs(TwiceDeviation(values, median2)[k])])

\* the z-score without np.abs
SignedZExceeds(dev2, mad4, threshold) ==
    IF mad4 = 0 THEN dev2 > 0
    ELSE 2 * dev2 * threshold.den > threshold.num * mad4

\* np.abs((v - median) / mad) > threshold, for 2 * (v - median) = dev2 and
\* 4 * mad = mad4.  A division by zero gives inf (nan for 0 / 0) in numpy
ZExceeds(dev2, mad4, threshold) ==
    IF mad4 = 0 THEN dev2 # 0
    ELSE 2 * Abs(dev2) * threshold.den > threshold.num * mad4

\* the records of the partition whose z-score does not exceed the threshold
OutlierRowsWithin(kept, values, median2, mad4, threshold) ==
    {kept[k] : k \in {j \in 1..Len(kept) :
        ~ZExceeds(TwiceDeviation(values, median2)[j], mad4, threshold)}}

\* the positions of the records of the partition with z_scores > threshold
OutlierRows(kept, values, median2, mad4, threshold) ==
    {kept[k] : k \in {j \in 1..Len(kept) :
        ZExceeds(TwiceDeviation(values, median2)[j], mad4, threshold)}}

\* how the loop body leaves a partition: outcome, and for an evaluated
\* partition the records with z_scores > threshold
Left(st, outcome, n, mad4, rows) ==
    [state |-> st, outcome |-> outcome, size |-> n, mad4 |-> mad4, outlier_rows |-> rows]

\* 'if len(votes) < config.MIN_EXPECTED_ROWS' with the test turned around
TooManyVotes(n, cfg) == n > cfg.MIN_EXPECTED_ROWS

\* if len(votes) < config.MIN_EXPECTED_ROWS: continue
TooFewVotes(n, cfg) == n < cfg.MIN_EXPECTED_ROWS

\* the test of mad left out
MadNeverZero(mad4) == FALSE

\* if mad == 0: continue
MadIsZero(mad4) == mad4 = 0

Evaluate(st, kept, values, median2, mad4, cfg) ==
    IF MadIsZero(mad4) THEN Left(st, "zero_mad", Len(values), mad4, {})
    ELSE Left(st, "evaluated", Len(values), mad4,
              OutlierRows(kept, values, median2, mad4, cfg.OUTLIER_THRESHOLD))

WithMedian(st, kept, values, median2, cfg) ==
    Evaluate(st, kept, values, median2, FourTimesMad(values, median2), cfg)

LoopBodyOn(st, kept, values, cfg) ==
    IF TooFewVotes(Len(values), cfg) THEN Left(st, "too_few", Len(values), 0, {})
    ELSE WithMedian(st, kept, values, TwiceMedian(values), cfg)

\* the numbers at the kept positions
ValuesAt(kept, converted) == [k \in 1..Len(kept) |-> converted[kept[k]].num]

LoopBodyKept(st, kept, converted, cfg) ==
    LoopBodyOn(st, kept, ValuesAt(kept, converted), cfg)

\* the body of 'for state, group in df.groupby("state")' for the group st
LoopBody(d, st, cfg) ==
    LoopBodyKept(st, KeptRows(GroupRows(d, st), ToNumericCoerce(Column(d, "votes")).values),
                 ToNumericCoerce(Column(d, "votes")).values, cfg)

\* if n_out > 0: outliers.append({"state": state, "outlier_precincts": n_out})
Appended(list, left) ==
    IF left.outcome = "evaluated" /\ left.outlier_rows # {}
    THEN Append(list, [state |-> left.state,
                       outlier_precincts |-> Cardinality(left.outlier_rows)])
    ELSE list

InitStats ==
    /\ votesData \in StatDatasets
    /\ statsConfig \in FirstConfigs
    /\ numerical = <<>>
    /\ distribution = <<>>
    /\ groupIdx = 0
    /\ outliers = <<>>
    /\ partitionLog = <<>>
    /\ flaggedRows = {}
    /\ statsEarlier = <<>>
    /\ rerunsLeft = MaxReruns
    /\ statsPc = "loaded"
    /\ IdleDup /\ IdleQa /\ IdleMatch /\ IdleOffice

\* runner: all_results["numerical"] = stats_utils.run_numerical_checks(df)
RunNumericalChecks ==
    /\ statsPc = "loaded"
    /\ numerical' = run_numerical_checks(votesData)
    /\ statsPc' = IF run_numerical_checks(votesData).aborted THEN "raised" ELSE "numerical"
    /\ UNCHANGED <<votesData, statsConfig, distribution, groupIdx, outliers, partitionLog,
                   flaggedRows, statsEarlier, rerunsLeft, dupVars, qaVars, matchVars, officeVars>>

\* vote_distribution_check: a required column is missing
DistributionColumnsMissing ==
    /\ statsPc = "numerical"
    /\ ~(StatColumns \subseteq votesData.cols)
    /\ distribution' = [error |-> "required columns missing", outlier_states |-> <<>>]
    /\ statsPc' = "returned"
    /\ UNCHANGED <<votesData, statsConfig, numerical, groupIdx, outliers, partitionLog,
                   flaggedRows, statsEarlier, rerunsLeft, dupVars, qaVars, matchVars, officeVars>>

\* vote_distribution_check up to the loop
DistributionEnter ==
    /\ statsPc = "numerical"
    /\ StatColumns \subseteq votesData.cols
    /\ outliers' = <<>>
    /\ groupIdx' = 1
    /\ statsPc' = "groups"
    /\ UNCHANGED <<votesData, statsConfig, numerical, distribution, partitionLog,
                   flaggedRows, statsEarlier, rerunsLeft, dupVars, qaVars, matchVars, officeVars>>

InLoop == statsPc = "groups" /\ groupIdx <= Len(StateKeys(votesData))

CurrentState == StateKeys(votesData)[groupIdx]

LeavePartition(left) ==
    /\ partitionLog' = Append(partitionLog, left)
    /\ flaggedRows' = flaggedRows \cup left.outlier_rows
    /\ outliers' = Appended(outliers, left)
    /\ groupIdx' = groupIdx + 1
    /\ UNCHANGED <<votesData, statsConfig, numerical, distribution, statsPc,
                   statsEarlier, rerunsLeft, dupVars, qaVars, matchVars, officeVars>>

\* one iteration that ends at a 'continue'
SkipPartition ==
    /\ InLoop
    /\ LoopBody(votesData, CurrentState, statsConfig).outcome # "evaluated"
    /\ LeavePartition(LoopBody(votesData, CurrentState, statsConfig))

\* one iteration that computes the z-scores
EvaluatePartition ==
    /\ InLoop
    /\ LoopBody(votesData, CurrentState, statsConfig).outcome = "evaluated"
    /\ LeavePartition(LoopBody(votesData, CurrentState, statsConfig))

\* return {"outlier_states": outliers}
DistributionReturn ==
    /\ statsPc = "groups"
    /\ groupIdx > Len(StateKeys(votesData))
    /\ distribution' = [error |-> "", outlier_states |-> outliers]
    /\ statsPc' = "returned"
    /\ UNCHANGED <<votesData, statsConfig, numerical, groupIdx, outliers, partitionLog,
                   flaggedRows, statsEarlier, rerunsLeft, dupVars, qaVars, matchVars, officeVars>>

\* what a run leaves behind for the comparison with the next one
Outcome ==
    [config |-> statsConfig, flagged |-> flaggedRows, partitionLog |-> partitionLog,
     distribution |-> distribution]

Rerun(cfg) ==
    /\ statsPc = "returned"
    /\ rerunsLeft > 0
    /\ statsConfig' = cfg
    /\ statsEarlier' = <<Outcome>>
    /\ rerunsLeft' = rerunsLeft - 1
    /\ numerical' = <<>>
    /\ distribution' = <<>>
    /\ groupIdx' = 0
    /\ outliers' = <<>>
    /\ partitionLog' = <<>>
    /\ flaggedRows' = {}
    /\ statsPc' = "loaded"
    /\ UNCHANGED <<votesData, dupVars, qaVars, matchVars, officeVars>>

\* config.OUTLIER_THRESHOLD is raised and the runner started again on the
\* same file
RaiseThresholdAndRerun ==
    \E t \in RaisedThresholds :
        /\ FracLess(statsConfig.OUTLIER_THRESHOLD, t)
        /\ Rerun([statsConfig EXCEPT !.OUTLIER_THRESHOLD = t])

\* config.MIN_EXPECTED_ROWS is raised and the runner started again on the
\* same file
RaiseMinimumAndRerun ==
    \E more \in 1..2 :
        Rerun([statsConfig EXCEPT !.MIN_EXPECTED_ROWS = @ + more])

NextStats ==
    \/ RunNumericalChecks
    \/ DistributionColumnsMissing
    \/ DistributionEnter
    \/ SkipPartition
    \/ EvaluatePartition
    \/ DistributionReturn
    \/ RaiseThresholdAndRerun
    \/ RaiseMinimumAndRerun

SpecStats == InitStats /\ [][NextStats]_vars

\* ------------------------------------------------------------------------
\* Claims about the numeric and outlier passes
\* ------------------------------------------------------------------------

\* the vote values of the partition st that parse as numbers
ParsedVotes(d, st) ==
    [k \in 1..Len(SelectSeq(d.rows, LAMBDA r : r["state"] = st /\ ParsesAsNumber(r["votes"]))) |->
        NumberOf(SelectSeq(d.rows, LAMBDA r :
                     r["state"] = st /\ ParsesAsNumber(r["votes"]))[k]["votes"])]

\* the states the result lists
ListedStates(list) == {list[k].state : k \in 1..Len(list)}

EvaluatedStates(log) == {log[k].state : k \in {j \in 1..Len(log) : log[j].outcome = "evaluated"}}

\* C23: a partition is evaluated for outliers only if it holds at least the
\* minimum sample size of vote values and its MAD is non-zero; every other
\* partition is skipped without a division by zero, contributes no flags and
\* is absent from the result, which reports no error.
C23_OnlySizablePartitionsEvaluated ==
    /\ \A k \in 1..Len(partitionLog) :
          /\ partitionLog[k].outcome = "evaluated" =>
                /\ Len(ParsedVotes(votesData, partitionLog[k].state))
                       >= statsConfig.MIN_EXPECTED_ROWS
                /\ FourTimesMad(ParsedVotes(votesData, partitionLog[k].state),
                       TwiceMedian(ParsedVotes(votesData, partitionLog[k].state))) # 0
          /\ partitionLog[k].outcome # "evaluated" =>
                /\ partitionLog[k].outlier_rows = {}
                /\ partitionLog[k].state \notin ListedStates(outliers)
    /\ (statsPc = "returned" /\ StatColumns \subseteq votesData.cols) =>
          /\ distribution.error = ""
          /\ ListedStates(distribution.outlier_states) \subseteq EvaluatedStates(partitionLog)

\* C23 witness: under the default minimum size of 10 one partition was
\* evaluated, another was skipped for its size, and the pass has returned
C23_Witness ==
    /\ statsPc = "returned"
    /\ statsConfig.MIN_EXPECTED_ROWS = MIN_EXPECTED_ROWS
    /\ \E k, m \in 1..Len(partitionLog) :
          /\ partitionLog[k].outcome = "evaluated"
          /\ partitionLog[m].outcome = "too_few"

\* |v - median| / MAD > threshold, for the values of one partition
RobustZExceeds(v, values, threshold) ==
    2 * Abs(2 * v - TwiceMedian(values)) * threshold.den
        > threshold.num * FourTimesMad(values, TwiceMedian(values))

\* the number of values of the partition whose robust z exceeds the threshold
NumExceeding(values, threshold) ==
    Cardinality({k \in 1..Len(values) : RobustZExceeds(values[k], values, threshold)})

\* the result lists the state once, with the count n
ListedWith(list, st, n) ==
    /\ Cardinality({k \in 1..Len(list) : list[k].state = st}) = 1
    /\ \A k \in 1..Len(list) : list[k].state = st => list[k].outlier_precincts = n

\* C24: for every evaluated partition the number of outliers reported equals
\* the number of its records with |v - median| / MAD strictly greater than the
\* threshold, median and MAD taken over the partition's values; a partition
\* with no such record is not listed.
C24_OutlierCountIsRobustZCount ==
    statsPc = "returned" =>
        \A st \in EvaluatedStates(partitionLog) :
            IF NumExceeding(ParsedVotes(votesData, st), statsConfig.OUTLIER_THRESHOLD) = 0
            THEN st \notin ListedStates(distribution.outlier_states)
            ELSE ListedWith(distribution.outlier_states, st,
                     NumExceeding(ParsedVotes(votesData, st), statsConfig.OUTLIER_THRESHOLD))

\* C24 witness: under the default threshold 3.5 the result lists a partition
\* with an outlier below the median, and another evaluated partition is not
\* listed
C24_Witness ==
    /\ statsPc = "returned"
    /\ statsConfig.OUTLIER_THRESHOLD = OUTLIER_THRESHOLD
    /\ \E k \in 1..Len(distribution.outlier_states) :
          distribution.outlier_states[k].outlier_precincts >= 1
    /\ \E i \in flaggedRows : votesData.rows[i]["votes"] = "-2"
    /\ EvaluatedStates(partitionLog) \ ListedStates(distribution.outlier_states) # {}

NumEvaluated(log) == Cardinality(EvaluatedStates(log))

\* C25: on a fixed dataset, raising the outlier threshold never adds a record
\* to the flagged set, and raising the minimum partition size never increases
\* the number of partitions evaluated.
C25_RaisingNeverAdds ==
    (statsPc = "returned" /\ statsEarlier # <<>>) =>
        /\ FracLess(statsEarlier[1].config.OUTLIER_THRESHOLD, statsConfig.OUTLIER_THRESHOLD)
              => flaggedRows \subseteq statsEarlier[1].flagged
        /\ statsEarlier[1].config.MIN_EXPECTED_ROWS < statsConfig.MIN_EXPECTED_ROWS
              => NumEvaluated(partitionLog) <= NumEvaluated(statsEarlier[1].partitionLog)

\* C25 witness: the second run, with a raised threshold, still flags a record
\* and no longer flags another the first run flagged
C25_Witness ==
    /\ statsPc = "returned"
    /\ statsEarlier # <<>>
    /\ FracLess(statsEarlier[1].config.OUTLIER_THRESHOLD, statsConfig.OUTLIER_THRESHOLD)
    /\ statsEarlier[1].flagged \ flaggedRows # {}

\* the records of the dataset whose votes cell does not parse as a number
Unparseable(d) == {i \in 1..Len(d.rows) : ~ParsesAsNumber(d.rows[i]["votes"])}

\* C26: a vote value that cannot be parsed as a number never aborts a numeric
\* or outlier pass: it is counted in non_numeric_votes and left out of its
\* partition's median, MAD and z-scores, and all other records of the pass
\* are still processed.
C26_UnparseableVoteNeverAborts ==
    /\ statsPc # "raised"
    /\ (statsPc \in {"numerical", "groups", "returned"} /\ "votes" \in votesData.cols) =>
          /\ ~numerical.aborted
          /\ numerical.non_numeric_votes = Cardinality(Unparseable(votesData))
          /\ numerical.negative_votes =
                 Cardinality({i \in 1..Len(votesData.rows) \ Unparseable(votesData) :
                                 NumberOf(votesData.rows[i]["votes"]) < 0})
    /\ \A k \in 1..Len(partitionLog) :
          /\ partitionLog[k].size = Len(ParsedVotes(votesData, partitionLog[k].state))
          /\ partitionLog[k].outlier_rows \cap Unparseable(votesData) = {}
    /\ (statsPc = "returned" /\ StatColumns \subseteq votesData.cols) =>
          {partitionLog[k].state : k \in 1..Len(partitionLog)}
              = {votesData.rows[i]["state"] : i \in 1..Len(votesData.rows)}

\* C26 witness: both passes have returned on a dataset with an unparseable
\* vote in a partition that was evaluated and has an outlier
C26_Witness ==
    /\ statsPc = "returned"
    /\ StatColumns \subseteq votesData.cols
    /\ numerical.non_numeric_votes >= 1
    /\ \E k \in 1..Len(partitionLog) :
          /\ partitionLog[k].outcome = "evaluated"
          /\ partitionLog[k].outlier_rows # {}
          /\ \E i \in Unparseable(votesData) :
                 votesData.rows[i]["state"] = partitionLog[k].state

\* ------------------------------------------------------------------------
\* Claims about the office mapping suggestions
\* ------------------------------------------------------------------------

\* C9: for the unmatched offices of a dataset, validate_office_mappings
\* returns the same suggestions and scores whatever order canonical_set is
\* enumerated in.
C9_SuggestionIndependentOfCanonicalOrder ==
    (officePc = "returned" /\ unmatched # <<>>) =>
        \A order \in CanonicalOrders :
            SuggestionsFrom(<<>>, unmatched, 1, order) = officeRes.mapping_suggestions

\* the suggestion recorded for the office o: the items of the dict with key o
SuggestionsFor(o) ==
    {suggestions[k].match : k \in {j \in 1..Len(suggestions) : suggestions[j].key = o}}

\* equality or prefix/substring containment applies to o for some canonical c
QuickApplies(o) ==
    \E c \in Range(DEFAULT_CANONICAL) :
        \/ o = c
        \/ StartsWith(o, c) \/ StartsWith(c, o)
        \/ Contains(c, o) \/ Contains(o, c)

\* the tokens of s that are no stopwords
ContentTokens(s) == Range(Split(s)) \ STOPWORDS

\* 2 * |common tokens| / (|value tokens| + |canonical tokens|), as <<n, d>>
Coefficient(o, c) ==
    <<2 * Cardinality(ContentTokens(o) \cap ContentTokens(c)),
      Cardinality(ContentTokens(o)) + Cardinality(ContentTokens(c))>>

\* the canonical names whose coefficient with o is the largest
BestByCoefficient(o) ==
    {c \in Range(DEFAULT_CANONICAL) :
        \A x \in Range(DEFAULT_CANONICAL) : FracLeq(Coefficient(o, x), Coefficient(o, c))}

\* the largest coefficient is at least 0.4
OverlapSuffices(o) ==
    /\ ContentTokens(o) # {}
    /\ \E c \in BestByCoefficient(o) : FracLeq(<<2, 5>>, Coefficient(o, c))

\* the offices the suggestion loop has dealt with
Dealt == {unmatched[k] : k \in 1..(sugIdx - 1)}

\* the score m, in hundredths, is exactly 0.8 + 0.2 * n/d
ExactConfidence(m, coef) == m.score * coef[2] = 80 * coef[2] + 20 * coef[1]

\* the score m, in hundredths, is 0.8 + 0.2 * n/d rounded to two decimals
RoundedConfidence(m, coef) == m.score = RoundDiv(80 * coef[2] + 20 * coef[1], coef[2])

\* C27: for an unmatched value to which neither equality nor prefix/substring
\* containment applies, the token-overlap heuristic suggests a canonical name
\* if and only if the largest overlap coefficient is at least 0.4; the
\* suggested name attains that coefficient and its confidence is
\* 0.8 + 0.2 * coefficient.
C27_TokenOverlapSuggestion ==
    \A o \in Dealt :
        ~QuickApplies(o) =>
            IF OverlapSuffices(o)
            THEN /\ SuggestionsFor(o) # {}
                 /\ \A m \in SuggestionsFor(o) :
                       /\ m.suggested \in BestByCoefficient(o)
                       /\ ExactConfidence(m, Coefficient(o, m.suggested))
            ELSE SuggestionsFor(o) \subseteq {DifflibHeuristic(o, canonical_order)}

\* C27 as amended: the same, with the confidence 0.8 + 0.2 * coefficient
\* rounded to two decimals.
C27_TokenOverlapRoundedConfidence ==
    \A o \in Dealt :
        ~QuickApplies(o) =>
            IF OverlapSuffices(o)
            THEN /\ SuggestionsFor(o) # {}
                 /\ \A m \in SuggestionsFor(o) :
                       /\ m.suggested \in BestByCoefficient(o)
                       /\ RoundedConfidence(m, Coefficient(o, m.suggested))
            ELSE SuggestionsFor(o) \subseteq {DifflibHeuristic(o, canonical_order)}

\* C27 witness: THE HOUSE, with the coefficient 2/3 for US HOUSE, has been
\* given the suggestion US HOUSE with the score 0.93
C27_Witness ==
    /\ "THE HOUSE" \in Dealt
    /\ ~QuickApplies("THE HOUSE")
    /\ SuggestionsFor("THE HOUSE") = {[suggested |-> "US HOUSE", score |-> 93]}

\* none of the four heuristics passes for o: no equality, no prefix or
\* substring containment, no sufficient token overlap, no close match
NonePasses(o) ==
    /\ ~QuickApplies(o)
    /\ ~OverlapSuffices(o)
    /\ \A c \in Range(DEFAULT_CANONICAL) : ~FracLeq(<<CloseCutoff, 100>>, SeqRatio(c, o))

\* the count unmatched_counts lists for o
ListedCount(o) ==
    {officeRes.unmatched_counts[k][2] :
        k \in {j \in 1..Len(officeRes.unmatched_counts) : officeRes.unmatched_counts[j][1] = o}}

\* C28: an unmatched office value for which none of the four heuristics
\* passes receives no suggestion and is only listed among the unmatched
\* values with its count; whenever a suggestion is produced, its target is a
\* member of the canonical set.
C28_NoGuessedSuggestion ==
    /\ \A k \in 1..Len(suggestions) :
          suggestions[k].match.suggested \in Range(DEFAULT_CANONICAL)
    /\ \A o \in Dealt : NonePasses(o) => SuggestionsFor(o) = {}
    /\ (officePc = "returned" /\ unmatched # <<>>) =>
          /\ officeRes.mapping_suggestions = suggestions
          /\ \A o \in Range(unmatched) :
                ListedCount(o) = {Cardinality({k \in 1..Len(officeColumn.cells) :
                                      Norm(officeColumn)[k] = o})}

\* C28 witness: the result lists MAYOR, for which no heuristic passes, with
\* its count and without a suggestion, next to an office with a suggestion
C28_Witness ==
    /\ officePc = "returned"
    /\ "MAYOR" \in Range(unmatched)
    /\ NonePasses("MAYOR")
    /\ SuggestionsFor("MAYOR") = {}
    /\ ListedCount("MAYOR") = {1}
    /\ suggestions # <<>>

\* the distinct office strings of the dataset, normalized, that are not
\* empty and not in the canonical set
DistinctUnmatched ==
    {Norm(officeColumn)[k] : k \in 1..Len(officeColumn.cells)}
        \ ({""} \cup Range(DEFAULT_CANONICAL))

\* C29: the issues number validate_office_mappings returns equals the number
\* of distinct office strings of the dataset that are non-empty and not in
\* the canonical set.
C29_IssuesCountsDistinctStrings ==
    (officePc = "returned" /\ officeColumn.present) =>
        officeRes.issues = Cardinality(DistinctUnmatched)

====
